---- MODULE Spec2Model ----
(***************************************************************************)
(* The resizable array engine of c-data-structures (src/src/array.c).      *)
(*                                                                         *)
(* The array struct (pp_array, len, cap) is the state.  Element handles    *)
(* are heap addresses 1..n; NULL is 0.  The heap of element allocations    *)
(* and the set of handles the caller holds are kept beside the array so    *)
(* that ownership and calls of the delete capability can be observed.      *)
(* Every public function is an operator computing the struct after the     *)
(* call, the return code and the handles handed to del_f, and an action    *)
(* applying it.  malloc, calloc and realloc may fail wherever the code     *)
(* calls them.                                                             *)
(*                                                                         *)
(* Spec drives small arrays with every index; SpecBig drives arrays of     *)
(* capacity near ARRAY_MAX_SIZE through array_fill and inserts at          *)
(* capacity; SpecResize pushes and pops up to a hundred elements through   *)
(* the growth and shrink steps; SpecScenario runs the calls of the         *)
(* end-to-end scenarios on an array of capacity 4; SpecClone clones        *)
(* arrays whose elements differ in content; SpecEqual compares and         *)
(* searches an array and its clone; SpecFill fills arrays with copies      *)
(* of a value; SpecStack drives the stack of src/src/stack.c, which        *)
(* delegates to the array; SpecSort sorts and searches the array of        *)
(* the sort scenario; SpecFrame makes every call of the array on arrays    *)
(* of capacity 1 and 17.  Capacities stay far below the width of size_t,   *)
(* so the products and differences of the code do not wrap.                *)
(*                                                                         *)
(* The node-chain containers and the matrix are modelled beside the array  *)
(* and share its heap of element allocations: ll is the singly linked      *)
(* list of src/src/linked_list.c (SpecLL), cll the circular list of        *)
(* src/src/circular_linked_list.c (SpecCLL, in which                       *)
(* circular_linked_list_size runs one loop turn per step), dll the doubly  *)
(* linked list of src/src/doubly_linked_list.c (SpecDLL) and matrix the    *)
(* matrix of src/src/matrix.c, one array per row (SpecMatrix).  A list is  *)
(* its pointer, its head and its nodes by address.                         *)
(***************************************************************************)
EXTENDS Integers, Sequences, FiniteSets, TLC

\* ---- program constants (src/include/array.h) ----
ARRAY_MAX_SIZE == 500
ARRAY_RESIZE_FACTOR == 2
ARRAY_SHRINK_THRESHOLD_DIVISOR == 6
ARRAY_SHRINK_FACTOR == 2
ARRAY_MIN_CAPACITY == 16

ARRAY_SUCCESS == 0
ARRAY_NOT_FOUND == -1
ARRAY_OUT_OF_BOUNDS == -2
ARRAY_INVALID_ARGUMENT == -3
ARRAY_ALLOCATION_FAILURE == -4

NULL == 0

\* stack_error_code_t (src/include/stack.h)
STACK_SUCCESS == 0
STACK_NOT_FOUND == -1
STACK_OUT_OF_BOUNDS == -2
STACK_INVALID_ARGUMENT == -3
STACK_ALLOCATION_FAILURE == -4
STACK_FAILURE == -6

\* ll_error_code_t (src/include/linked_list.h)
LL_SUCCESS == 0
LL_OUT_OF_BOUNDS == -2
LL_INVALID_ARGUMENT == -3
LL_ALLOCATION_FAILURE == -4

\* matrix_error_code_t (src/include/matrix.h)
MATRIX_SUCCESS == 0
MATRIX_NOT_FOUND == -1
MATRIX_OUT_OF_BOUNDS == -2
MATRIX_INVALID_ARGUMENT == -3
MATRIX_ALLOCATION_FAILURE == -4
MATRIX_FAILURE == -5

\* ---- bounds of the model ----
\* element allocations the heap can hold in Spec
MaxHandles == 4
\* elements the caller holds at once before it pops or allocates another
MaxOwned == 1
\* element allocations the heap can hold in SpecBig
BigHeap == 503

\* the content of every element where no claim reads it
OneContent == {10}
\* the contents the caller writes to elements in SpecClone
CloneContents == {10, 20}

\* initial capacities the caller asks for in Spec (0 is rejected)
InitCaps == {0, 1, 3, 17}
\* initial capacities the caller asks for in SpecBig
BigCaps == {250, 251, 501}
\* element allocations the heap can hold in SpecResize (the pushes of
\* test_array_resize_behavior)
ResizeHeap == 100
\* initial capacities the caller asks for in SpecResize
ResizeCaps == {4, 17, 40}
\* element allocations the heap can hold in SpecScenario (the five elements
\* of the array [10,20,25,30,40])
ScenarioHeap == 5
\* the initial capacity the caller asks for in SpecScenario
ScenarioCaps == {4}
\* element allocations the heap can hold in SpecClone
CloneHeap == 6
\* element allocations the heap can hold in SpecSort (four elements and a
\* key)
SortHeap == 5
\* the initial capacity the caller asks for in SpecSort
SortCaps == {4}
\* the contents the caller writes to elements in SpecSort
SortContents == {1, 2, 5, 8, 99}
\* element allocations the heap can hold in SpecFill (three elements, the
\* value and three copies)
FillHeap == 7
\* element allocations the heap can hold in SpecStack (the three values of
\* test_stack_push_pop_size)
StackHeap == 3
\* initial capacities the caller asks for in SpecStack
StackCaps == {5, 17}
\* calls of an alternating push/pop run followed from each state (C31)
AltCalls == 6
\* element allocations the heap can hold in SpecFrame
FrameHeap == 3
\* initial capacities the caller asks for in SpecFrame
FrameCaps == {1, 17}
\* the largest content array_foreach is let produce
MaxContent == 50
\* element allocations the heap can hold in SpecLL (a list of three)
LLHeap == 3
\* element allocations the heap can hold in SpecCLL (a ring of three)
CLLHeap == 3
\* bits of the counter of circular_linked_list_size (an int in the source),
\* which wraps when every bit is set
SizeBits == 3
\* element allocations the heap can hold in SpecDLL (a list of three)
DLLHeap == 3
\* element allocations the heap can hold in SpecMatrix
MatrixHeap == 3
\* the largest number of rows and of columns SpecMatrix creates
MaxDim == 2
\* element allocations the heap can hold in SpecEqual
EqualHeap == 4
\* initial capacities the caller asks for in SpecClone
CloneCaps == {1, 3}

VARIABLES
    p_array,    \* NULL, or 1: the address of the live array_t
    pp_array,   \* the slot buffer, slot idx at position idx + 1, Len = cap
    len,        \* p_array->len
    cap,        \* p_array->cap
    heap,       \* element allocations that are live (malloc'd, not freed)
    owned,      \* handles the caller holds and is responsible for
    badfree,    \* TRUE once del_f/free was handed a handle that is not live
    last,       \* the last call: operation, arguments, result, state before
    val,        \* the int stored in each live element allocation
    p_clone,    \* NULL, or 2: the address of the array_t array_clone returned
    clone,      \* the array_t p_clone designates
    ll,         \* the singly linked list (ll_t and its nodes)
    cll,        \* the circular linked list and its nodes
    dll,        \* the doubly linked list and its nodes
    matrix      \* the matrix_t; its p_flat is the array p_array

\* the structures beside the array
others == <<ll, cll, dll, matrix>>

vars == <<p_array, pp_array, len, cap, heap, owned, badfree, last, val,
          p_clone, clone, ll, cll, dll, matrix>>

\* ---- helpers ----
Min(a, b) == IF a < b THEN a ELSE b

Range(s) == {s[i] : i \in 1..Len(s)}

Nulls(n) == [i \in 1..n |-> NULL]

\* the array_t the pointer designates
Arr == [pp_array |-> pp_array, len |-> len, cap |-> cap]

NoArr == [pp_array |-> <<>>, len |-> 0, cap |-> 0]

\* no list: the list pointer is NULL.  A list is its pointer p_list, its
\* p_head and the nodes allocated for it, node[n] being the struct at
\* address n.
NoList == [p_list |-> NULL, p_head |-> NULL, node |-> <<>>]

\* no matrix: the matrix pointer is NULL.  A matrix is its pointer p_matrix,
\* its dimensions and its rows pp_matrix, each the array_t of one row.
NoMatrix == [p_matrix |-> NULL, rows |-> 0, cols |-> 0, pp_matrix |-> <<>>]

\* the live elements s[0..len) of an array_t
Contents(a) == SubSeq(a.pp_array, 1, a.len)

\* malloc: the lowest address not live, NULL when the heap of lim cells is full
Malloc(h, lim) ==
    IF \E x \in 1..lim : x \notin h
    THEN CHOOSE x \in 1..lim : x \notin h /\ \A y \in 1..(x - 1) : y \in h
    ELSE NULL

\* the first n results of successive malloc calls: the n lowest addresses
\* that are not live, in rising order (the i-th one lies Cardinality(h) or
\* fewer cells above i)
MallocN(h, lim, n) ==
    [i \in 1..n |->
        CHOOSE x \in i..Min(lim, i + Cardinality(h)) :
            x \notin h /\ x - Cardinality({y \in h : y <= x}) = i]

FreeCells(h, lim) == Cardinality((1..lim) \ h)

\* ---- the int capabilities of the tests (test_auxiliary.c) ----

\* copy_int: the content of the copy (its address is malloc's choice)
copy_int(mem, p_data) == mem[p_data]

\* compare_ints
compare_ints(mem, p_lhs, p_rhs) ==
    LET lhs == mem[p_lhs]
        rhs == mem[p_rhs]
    IN  (IF lhs > rhs THEN 1 ELSE 0) - (IF lhs < rhs THEN 1 ELSE 0)

\* multiply_by_five: the content it leaves
multiply_by_five(data) == data * 5

\* ---- array.c ----

array_is_full(p, a) == p # NULL /\ a.len = a.cap

array_is_empty(p, a) == p # NULL /\ a.len = 0

\* array_del_ele: the handles del_f is called on for value v
array_del_ele(p, v) == IF p # NULL /\ v # NULL THEN <<v>> ELSE <<>>

\* array_reserve with the capacity written before realloc's result is tested
array_reserve_early_cap(p, a, new_cap, ok) ==
    IF p = NULL
    THEN [a |-> a, ret |-> ARRAY_INVALID_ARGUMENT]
    ELSE IF a.cap >= new_cap \/ ARRAY_MAX_SIZE < new_cap
    THEN [a |-> a, ret |-> ARRAY_OUT_OF_BOUNDS]
    ELSE IF ~ok
    THEN [a |-> [a EXCEPT !.cap = new_cap], ret |-> ARRAY_ALLOCATION_FAILURE]
    ELSE [a |-> [a EXCEPT !.pp_array = a.pp_array \o Nulls(new_cap - a.cap),
                          !.cap = new_cap],
          ret |-> ARRAY_SUCCESS]

\* array_reserve that refuses a new capacity equal to ARRAY_MAX_SIZE
array_reserve_strict_max(p, a, new_cap, ok) ==
    IF p = NULL
    THEN [a |-> a, ret |-> ARRAY_INVALID_ARGUMENT]
    ELSE IF a.cap >= new_cap \/ ARRAY_MAX_SIZE <= new_cap
    THEN [a |-> a, ret |-> ARRAY_OUT_OF_BOUNDS]
    ELSE IF ~ok
    THEN [a |-> a, ret |-> ARRAY_ALLOCATION_FAILURE]
    ELSE [a |-> [a EXCEPT !.pp_array = a.pp_array \o Nulls(new_cap - a.cap),
                          !.cap = new_cap],
          ret |-> ARRAY_SUCCESS]

\* array_reserve: ok is whether realloc succeeds
array_reserve(p, a, new_cap, ok) ==
    IF p = NULL
    THEN [a |-> a, ret |-> ARRAY_INVALID_ARGUMENT]
    ELSE IF a.cap >= new_cap \/ ARRAY_MAX_SIZE < new_cap
    THEN [a |-> a, ret |-> ARRAY_OUT_OF_BOUNDS]
    ELSE IF ~ok
    THEN [a |-> a, ret |-> ARRAY_ALLOCATION_FAILURE]
    ELSE [a |-> [a EXCEPT !.pp_array = a.pp_array \o Nulls(new_cap - a.cap),
                          !.cap = new_cap],
          ret |-> ARRAY_SUCCESS]

\* array_shrink_to_fit that shrinks as soon as len is no more than half of
\* cap
array_shrink_to_fit_at_half(p, a, ok) ==
    IF p = NULL
    THEN [a |-> a, ret |-> ARRAY_INVALID_ARGUMENT]
    ELSE IF a.len > a.cap \div ARRAY_SHRINK_FACTOR
            \/ a.cap <= ARRAY_MIN_CAPACITY
    THEN [a |-> a, ret |-> ARRAY_SUCCESS]
    ELSE LET half == a.cap \div ARRAY_SHRINK_FACTOR
             new_cap == IF half < ARRAY_MIN_CAPACITY
                        THEN ARRAY_MIN_CAPACITY ELSE half
         IN  IF ~ok
             THEN [a |-> a, ret |-> ARRAY_ALLOCATION_FAILURE]
             ELSE [a |-> [a EXCEPT !.pp_array = SubSeq(a.pp_array, 1, new_cap),
                                   !.cap = new_cap],
                   ret |-> ARRAY_SUCCESS]

\* array_shrink_to_fit that first raises a capacity under ARRAY_MIN_CAPACITY
\* to it
array_shrink_to_fit_floor(p, a, ok) ==
    IF p = NULL
    THEN [a |-> a, ret |-> ARRAY_INVALID_ARGUMENT]
    ELSE IF a.cap < ARRAY_MIN_CAPACITY
    THEN [a |-> [a EXCEPT !.pp_array =
                              a.pp_array \o Nulls(ARRAY_MIN_CAPACITY - a.cap),
                          !.cap = ARRAY_MIN_CAPACITY],
          ret |-> ARRAY_SUCCESS]
    ELSE IF a.len >= a.cap \div ARRAY_SHRINK_THRESHOLD_DIVISOR
            \/ a.cap <= ARRAY_MIN_CAPACITY
    THEN [a |-> a, ret |-> ARRAY_SUCCESS]
    ELSE LET half == a.cap \div ARRAY_SHRINK_FACTOR
             new_cap == IF half < ARRAY_MIN_CAPACITY
                        THEN ARRAY_MIN_CAPACITY ELSE half
         IN  IF ~ok
             THEN [a |-> a, ret |-> ARRAY_ALLOCATION_FAILURE]
             ELSE [a |-> [a EXCEPT !.pp_array = SubSeq(a.pp_array, 1, new_cap),
                                   !.cap = new_cap],
                   ret |-> ARRAY_SUCCESS]

\* array_shrink_to_fit without the floor of ARRAY_MIN_CAPACITY
array_shrink_to_fit_no_floor(p, a, ok) ==
    IF p = NULL
    THEN [a |-> a, ret |-> ARRAY_INVALID_ARGUMENT]
    ELSE IF a.len >= a.cap \div ARRAY_SHRINK_THRESHOLD_DIVISOR
            \/ a.cap <= ARRAY_MIN_CAPACITY
    THEN [a |-> a, ret |-> ARRAY_SUCCESS]
    ELSE LET new_cap == a.cap \div ARRAY_SHRINK_FACTOR
         IN  IF ~ok
             THEN [a |-> a, ret |-> ARRAY_ALLOCATION_FAILURE]
             ELSE [a |-> [a EXCEPT !.pp_array = SubSeq(a.pp_array, 1, new_cap),
                                   !.cap = new_cap],
                   ret |-> ARRAY_SUCCESS]

\* array_shrink_to_fit that shrinks as soon as len is under half of cap
array_shrink_to_fit_eager(p, a, ok) ==
    IF p = NULL
    THEN [a |-> a, ret |-> ARRAY_INVALID_ARGUMENT]
    ELSE IF a.len >= a.cap \div ARRAY_SHRINK_FACTOR
            \/ a.cap <= ARRAY_MIN_CAPACITY
    THEN [a |-> a, ret |-> ARRAY_SUCCESS]
    ELSE LET half == a.cap \div ARRAY_SHRINK_FACTOR
             new_cap == IF half < ARRAY_MIN_CAPACITY
                        THEN ARRAY_MIN_CAPACITY ELSE half
         IN  IF ~ok
             THEN [a |-> a, ret |-> ARRAY_ALLOCATION_FAILURE]
             ELSE [a |-> [a EXCEPT !.pp_array = SubSeq(a.pp_array, 1, new_cap),
                                   !.cap = new_cap],
                   ret |-> ARRAY_SUCCESS]

\* array_shrink_to_fit: ok is whether realloc succeeds
array_shrink_to_fit(p, a, ok) ==
    IF p = NULL
    THEN [a |-> a, ret |-> ARRAY_INVALID_ARGUMENT]
    ELSE IF a.len >= a.cap \div ARRAY_SHRINK_THRESHOLD_DIVISOR
            \/ a.cap <= ARRAY_MIN_CAPACITY
    THEN [a |-> a, ret |-> ARRAY_SUCCESS]
    ELSE LET half == a.cap \div ARRAY_SHRINK_FACTOR
             new_cap == IF half < ARRAY_MIN_CAPACITY
                        THEN ARRAY_MIN_CAPACITY ELSE half
         IN  IF ~ok
             THEN [a |-> a, ret |-> ARRAY_ALLOCATION_FAILURE]
             ELSE [a |-> [a EXCEPT !.pp_array = SubSeq(a.pp_array, 1, new_cap),
                                   !.cap = new_cap],
                   ret |-> ARRAY_SUCCESS]

\* the store of array_insert with the shift loop left out
InsertShift_no_shift(a, index, p_value) ==
    [a EXCEPT !.pp_array[index + 1] = p_value, !.len = a.len + 1]

\* the shift loop and store of array_insert on a buffer with a free slot
InsertShift(a, index, p_value) ==
    [a EXCEPT !.pp_array =
                  [i \in 1..a.cap |->
                      IF i - 1 < index THEN a.pp_array[i]
                      ELSE IF i - 1 = index THEN p_value
                      ELSE IF i - 1 <= a.len THEN a.pp_array[i - 1]
                      ELSE a.pp_array[i]],
              !.len = a.len + 1]

\* array_insert that stores the element without testing array_reserve's result
array_insert_unchecked(p, a, index, p_value, ok) ==
    IF p = NULL \/ p_value = NULL
    THEN [a |-> a, ret |-> ARRAY_INVALID_ARGUMENT, del |-> <<>>]
    ELSE IF index > a.len
    THEN [a |-> a, ret |-> ARRAY_OUT_OF_BOUNDS, del |-> <<>>]
    ELSE LET r == IF array_is_full(p, a)
                  THEN array_reserve(p, a, a.cap * ARRAY_RESIZE_FACTOR, ok)
                  ELSE [a |-> a, ret |-> ARRAY_SUCCESS]
         IN  [a |-> InsertShift(r.a, index, p_value), ret |-> r.ret, del |-> <<>>]

\* array_insert that deletes the element it rejects for a bad index
array_insert_deletes(p, a, index, p_value, ok) ==
    IF p = NULL \/ p_value = NULL
    THEN [a |-> a, ret |-> ARRAY_INVALID_ARGUMENT, del |-> <<>>]
    ELSE IF index > a.len
    THEN [a |-> a, ret |-> ARRAY_OUT_OF_BOUNDS, del |-> array_del_ele(p, p_value)]
    ELSE LET r == IF array_is_full(p, a)
                  THEN array_reserve(p, a, a.cap * ARRAY_RESIZE_FACTOR, ok)
                  ELSE [a |-> a, ret |-> ARRAY_SUCCESS]
         IN  IF r.ret = ARRAY_SUCCESS
             THEN [a |-> InsertShift(r.a, index, p_value),
                   ret |-> ARRAY_SUCCESS, del |-> <<>>]
             ELSE [a |-> r.a, ret |-> r.ret, del |-> <<>>]

\* array_insert: ok is whether the realloc of a needed growth succeeds
array_insert(p, a, index, p_value, ok) ==
    IF p = NULL \/ p_value = NULL
    THEN [a |-> a, ret |-> ARRAY_INVALID_ARGUMENT, del |-> <<>>]
    ELSE IF index > a.len
    THEN [a |-> a, ret |-> ARRAY_OUT_OF_BOUNDS, del |-> <<>>]
    ELSE LET r == IF array_is_full(p, a)
                  THEN array_reserve(p, a, a.cap * ARRAY_RESIZE_FACTOR, ok)
                  ELSE [a |-> a, ret |-> ARRAY_SUCCESS]
         IN  IF r.ret = ARRAY_SUCCESS
             THEN [a |-> InsertShift(r.a, index, p_value),
                   ret |-> ARRAY_SUCCESS, del |-> <<>>]
             ELSE [a |-> r.a, ret |-> r.ret, del |-> <<>>]

\* array_push that deletes the element when array_insert fails
array_push_cleanup(p, a, p_value, ok) ==
    IF p = NULL \/ p_value = NULL
    THEN [a |-> a, ret |-> ARRAY_INVALID_ARGUMENT, del |-> <<>>]
    ELSE LET r == array_insert(p, a, a.len, p_value, ok)
         IN  IF r.ret = ARRAY_SUCCESS THEN r
             ELSE [r EXCEPT !.del = array_del_ele(p, p_value)]

\* array_push
array_push(p, a, p_value, ok) ==
    IF p = NULL \/ p_value = NULL
    THEN [a |-> a, ret |-> ARRAY_INVALID_ARGUMENT, del |-> <<>>]
    ELSE array_insert(p, a, a.len, p_value, ok)

\* array_set that deletes the element it rejects for a bad index
array_set_deletes(p, a, index, p_value, ok) ==
    IF p = NULL \/ p_value = NULL
    THEN [a |-> a, ret |-> ARRAY_INVALID_ARGUMENT, del |-> <<>>]
    ELSE IF index > a.len
    THEN [a |-> a, ret |-> ARRAY_OUT_OF_BOUNDS, del |-> array_del_ele(p, p_value)]
    ELSE IF index = a.len
    THEN array_insert(p, a, index, p_value, ok)
    ELSE [a |-> [a EXCEPT !.pp_array[index + 1] = p_value],
          ret |-> ARRAY_SUCCESS,
          del |-> IF a.pp_array[index + 1] # NULL
                  THEN array_del_ele(p, a.pp_array[index + 1]) ELSE <<>>]

\* array_set that overwrites a slot without deleting its previous occupant
array_set_no_delete(p, a, index, p_value, ok) ==
    IF p = NULL \/ p_value = NULL
    THEN [a |-> a, ret |-> ARRAY_INVALID_ARGUMENT, del |-> <<>>]
    ELSE IF index > a.len
    THEN [a |-> a, ret |-> ARRAY_OUT_OF_BOUNDS, del |-> <<>>]
    ELSE IF index = a.len
    THEN array_insert(p, a, index, p_value, ok)
    ELSE [a |-> [a EXCEPT !.pp_array[index + 1] = p_value],
          ret |-> ARRAY_SUCCESS, del |-> <<>>]

\* array_set
array_set(p, a, index, p_value, ok) ==
    IF p = NULL \/ p_value = NULL
    THEN [a |-> a, ret |-> ARRAY_INVALID_ARGUMENT, del |-> <<>>]
    ELSE IF index > a.len
    THEN [a |-> a, ret |-> ARRAY_OUT_OF_BOUNDS, del |-> <<>>]
    ELSE IF index = a.len
    THEN array_insert(p, a, index, p_value, ok)
    ELSE [a |-> [a EXCEPT !.pp_array[index + 1] = p_value],
          ret |-> ARRAY_SUCCESS,
          del |-> IF a.pp_array[index + 1] # NULL
                  THEN array_del_ele(p, a.pp_array[index + 1]) ELSE <<>>]

\* the shift loop of array_remove without the store of NULL in the tail slot
RemoveShift_stale_tail(a, index) ==
    [a EXCEPT !.pp_array =
                  [i \in 1..a.cap |->
                      IF i - 1 < index THEN a.pp_array[i]
                      ELSE IF i - 1 < a.len - 1 THEN a.pp_array[i + 1]
                      ELSE a.pp_array[i]],
              !.len = a.len - 1]

\* the shift loop of array_remove, the decrement and the nulled tail slot
RemoveShift(a, index) ==
    [a EXCEPT !.pp_array =
                  [i \in 1..a.cap |->
                      IF i - 1 < index THEN a.pp_array[i]
                      ELSE IF i - 1 < a.len - 1 THEN a.pp_array[i + 1]
                      ELSE IF i - 1 = a.len - 1 THEN NULL
                      ELSE a.pp_array[i]],
              !.len = a.len - 1]

\* array_remove that deletes the last element instead of the one at index
array_remove_wrong_del(p, a, index, ok) ==
    IF p = NULL
    THEN [a |-> a, ret |-> ARRAY_INVALID_ARGUMENT, del |-> <<>>]
    ELSE IF index >= a.len
    THEN [a |-> a, ret |-> ARRAY_OUT_OF_BOUNDS, del |-> <<>>]
    ELSE [a |-> array_shrink_to_fit(p, RemoveShift(a, index), ok).a,
          ret |-> ARRAY_SUCCESS,
          del |-> array_del_ele(p, a.pp_array[a.len])]

\* array_remove that returns the code of array_shrink_to_fit as array_pop does
array_remove_returns_shrink(p, a, index, ok) ==
    IF p = NULL
    THEN [a |-> a, ret |-> ARRAY_INVALID_ARGUMENT, del |-> <<>>]
    ELSE IF index >= a.len
    THEN [a |-> a, ret |-> ARRAY_OUT_OF_BOUNDS, del |-> <<>>]
    ELSE [a |-> array_shrink_to_fit(p, RemoveShift(a, index), ok).a,
          ret |-> array_shrink_to_fit(p, RemoveShift(a, index), ok).ret,
          del |-> array_del_ele(p, a.pp_array[index + 1])]

\* array_remove that clamps an index past the end to the last element
array_remove_clamps(p, a, index, ok) ==
    IF p = NULL
    THEN [a |-> a, ret |-> ARRAY_INVALID_ARGUMENT, del |-> <<>>]
    ELSE IF a.len = 0
    THEN [a |-> a, ret |-> ARRAY_OUT_OF_BOUNDS, del |-> <<>>]
    ELSE LET i == Min(index, a.len - 1)
         IN  [a |-> array_shrink_to_fit(p, RemoveShift(a, i), ok).a,
              ret |-> ARRAY_SUCCESS,
              del |-> array_del_ele(p, a.pp_array[i + 1])]

\* array_remove: ok is whether the realloc of a due shrink succeeds
array_remove(p, a, index, ok) ==
    IF p = NULL
    THEN [a |-> a, ret |-> ARRAY_INVALID_ARGUMENT, del |-> <<>>]
    ELSE IF index >= a.len
    THEN [a |-> a, ret |-> ARRAY_OUT_OF_BOUNDS, del |-> <<>>]
    ELSE [a |-> array_shrink_to_fit(p, RemoveShift(a, index), ok).a,
          ret |-> ARRAY_SUCCESS,
          del |-> array_del_ele(p, a.pp_array[index + 1])]

\* array_pop that hands the popped element to del_f as array_remove does
array_pop_deletes(p, a, has_out, ok) ==
    IF p = NULL \/ ~has_out
    THEN [a |-> a, ret |-> ARRAY_INVALID_ARGUMENT, del |-> <<>>, out |-> NULL]
    ELSE IF a.len = 0
    THEN [a |-> a, ret |-> ARRAY_OUT_OF_BOUNDS, del |-> <<>>, out |-> NULL]
    ELSE LET last_index == a.len - 1
             b == [a EXCEPT !.pp_array[last_index + 1] = NULL,
                            !.len = a.len - 1]
             r == array_shrink_to_fit(p, b, ok)
         IN  [a |-> r.a, ret |-> r.ret,
              del |-> array_del_ele(p, a.pp_array[last_index + 1]),
              out |-> a.pp_array[last_index + 1]]

\* array_pop: has_out is whether p_out is non-null; out is what it receives
array_pop(p, a, has_out, ok) ==
    IF p = NULL \/ ~has_out
    THEN [a |-> a, ret |-> ARRAY_INVALID_ARGUMENT, del |-> <<>>, out |-> NULL]
    ELSE IF a.len = 0
    THEN [a |-> a, ret |-> ARRAY_OUT_OF_BOUNDS, del |-> <<>>, out |-> NULL]
    ELSE LET last_index == a.len - 1
             b == [a EXCEPT !.pp_array[last_index + 1] = NULL,
                            !.len = a.len - 1]
             r == array_shrink_to_fit(p, b, ok)
         IN  [a |-> r.a, ret |-> r.ret, del |-> <<>>,
              out |-> a.pp_array[last_index + 1]]

\* array_get that reads slot 0 whatever the index
array_get_first(p, a, index, has_out) ==
    IF p = NULL \/ ~has_out
    THEN [a |-> a, ret |-> ARRAY_INVALID_ARGUMENT, out |-> NULL]
    ELSE IF index >= a.len
    THEN [a |-> a, ret |-> ARRAY_OUT_OF_BOUNDS, out |-> NULL]
    ELSE [a |-> a, ret |-> ARRAY_SUCCESS, out |-> a.pp_array[1]]

\* array_get: has_out is whether p_out is non-null; out is what it receives
array_get(p, a, index, has_out) ==
    IF p = NULL \/ ~has_out
    THEN [a |-> a, ret |-> ARRAY_INVALID_ARGUMENT, out |-> NULL]
    ELSE IF index >= a.len
    THEN [a |-> a, ret |-> ARRAY_OUT_OF_BOUNDS, out |-> NULL]
    ELSE [a |-> a, ret |-> ARRAY_SUCCESS, out |-> a.pp_array[index + 1]]

\* a clear that passes over the last live element
ClearDel_no_tail(p, a) ==
    IF p = NULL THEN <<>>
    ELSE SelectSeq(SubSeq(a.pp_array, 1, a.len - 1), LAMBDA v : v # NULL)

\* array_clear that also gives the buffer back down to ARRAY_MIN_CAPACITY
array_clear_shrinks(p, a) ==
    IF p = NULL
    THEN [a |-> a, del |-> <<>>]
    ELSE [a |-> [pp_array |-> Nulls(Min(a.cap, ARRAY_MIN_CAPACITY)),
                 len |-> 0, cap |-> Min(a.cap, ARRAY_MIN_CAPACITY)],
          del |-> SelectSeq(SubSeq(a.pp_array, 1, a.len), LAMBDA v : v # NULL)]

\* the handles array_clear hands to del_f, in slot order (array_del_ele
\* skips a null slot)
ClearDel(p, a) ==
    IF p = NULL THEN <<>>
    ELSE SelectSeq(SubSeq(a.pp_array, 1, a.len), LAMBDA v : v # NULL)

\* array_clear
array_clear(p, a) ==
    IF p = NULL
    THEN [a |-> a, del |-> <<>>]
    ELSE [a |-> [a EXCEPT !.pp_array =
                              [i \in 1..a.cap |->
                                  IF i - 1 < a.len THEN NULL
                                  ELSE a.pp_array[i]],
                          !.len = 0],
          del |-> ClearDel(p, a)]

\* array_fill that leaves the copies it made when a later copy fails
array_fill_no_rollback(p, a, p_value, ok, copies) ==
    IF p = NULL \/ p_value = NULL
    THEN [a |-> a, ret |-> ARRAY_INVALID_ARGUMENT, del |-> <<>>, made |-> <<>>]
    ELSE IF ~ok
    THEN [a |-> a, ret |-> ARRAY_ALLOCATION_FAILURE, del |-> <<>>, made |-> <<>>]
    ELSE IF Len(copies) < a.cap
    THEN [a |-> a, ret |-> ARRAY_ALLOCATION_FAILURE,
          del |-> <<>>, made |-> copies]
    ELSE LET c == array_clear(p, a)
         IN  [a |-> [c.a EXCEPT !.pp_array = copies, !.len = a.cap],
              ret |-> ARRAY_SUCCESS, del |-> c.del, made |-> copies]

\* array_fill: ok is whether calloc of the temporary succeeds, copies the
\* results of the successful cpy_f calls (fewer than cap: the next one failed)
array_fill(p, a, p_value, ok, copies) ==
    IF p = NULL \/ p_value = NULL
    THEN [a |-> a, ret |-> ARRAY_INVALID_ARGUMENT, del |-> <<>>, made |-> <<>>]
    ELSE IF ~ok
    THEN [a |-> a, ret |-> ARRAY_ALLOCATION_FAILURE, del |-> <<>>, made |-> <<>>]
    ELSE IF Len(copies) < a.cap
    THEN [a |-> a, ret |-> ARRAY_ALLOCATION_FAILURE,
          del |-> copies, made |-> copies]
    ELSE LET c == array_clear(p, a)
         IN  [a |-> [c.a EXCEPT !.pp_array = copies, !.len = a.cap],
              ret |-> ARRAY_SUCCESS, del |-> c.del, made |-> copies]

\* array_create that accepts a null copy function
array_create_no_cpy(initial_capacity, del_f, cmp_f, print_f, cpy_f, ok1, ok2) ==
    IF 0 < initial_capacity /\ del_f /\ cmp_f /\ print_f /\ ok1 /\ ok2
    THEN [p |-> 1,
          a |-> [pp_array |-> Nulls(initial_capacity), len |-> 0,
                 cap |-> initial_capacity]]
    ELSE [p |-> NULL, a |-> NoArr]

\* array_create: del_f, cmp_f, print_f and cpy_f are whether each capability
\* function is non-null, ok1 and ok2 whether the two calloc calls succeed
array_create(initial_capacity, del_f, cmp_f, print_f, cpy_f, ok1, ok2) ==
    IF 0 < initial_capacity /\ del_f /\ cmp_f /\ print_f /\ cpy_f
       /\ ok1 /\ ok2
    THEN [p |-> 1,
          a |-> [pp_array |-> Nulls(initial_capacity), len |-> 0,
                 cap |-> initial_capacity]]
    ELSE [p |-> NULL, a |-> NoArr]

\* array_destroy that frees the buffer without clearing it
array_destroy_no_clear(p, a) == [del |-> <<>>]

\* array_destroy
array_destroy(p, a) ==
    IF p = NULL THEN [del |-> <<>>] ELSE [del |-> array_clear(p, a).del]

\* array_foreach with multiply_by_five: has_func is whether func is non-null,
\* mem the contents after the calls of func
array_foreach(p, a, has_func, mem) ==
    IF p = NULL \/ ~has_func
    THEN [a |-> a, ret |-> ARRAY_INVALID_ARGUMENT, mem |-> mem]
    ELSE [a |-> a, ret |-> ARRAY_SUCCESS,
          mem |-> [x \in DOMAIN mem |->
                      IF x \in Range(Contents(a))
                      THEN multiply_by_five(mem[x]) ELSE mem[x]]]

\* array_is_equal that also requires equal capacities
array_is_equal_caps(p_array_a, a, p_array_b, b, mem) ==
    IF p_array_a = NULL /\ p_array_b = NULL THEN TRUE
    ELSE IF p_array_a = NULL \/ p_array_b = NULL THEN FALSE
    ELSE IF a.len # b.len \/ a.cap # b.cap THEN FALSE
    ELSE \A idx \in 0..(a.len - 1) :
             compare_ints(mem, a.pp_array[idx + 1], b.pp_array[idx + 1]) = 0

\* array_is_equal: cmp_f is compare_ints over the element contents mem
array_is_equal(p_array_a, a, p_array_b, b, mem) ==
    IF p_array_a = NULL /\ p_array_b = NULL THEN TRUE
    ELSE IF p_array_a = NULL \/ p_array_b = NULL THEN FALSE
    ELSE IF a.len # b.len THEN FALSE
    ELSE \A idx \in 0..(a.len - 1) :
             compare_ints(mem, a.pp_array[idx + 1], b.pp_array[idx + 1]) = 0

\* array_find that returns the last matching index
array_find_last(p, a, p_key, has_idx, mem) ==
    IF p = NULL \/ p_key = NULL \/ ~has_idx
    THEN [a |-> a, ret |-> ARRAY_INVALID_ARGUMENT, idx |-> 0]
    ELSE LET hits == {i \in 0..(a.len - 1) :
                         compare_ints(mem, p_key, a.pp_array[i + 1]) = 0}
         IN  IF hits = {}
             THEN [a |-> a, ret |-> ARRAY_NOT_FOUND, idx |-> 0]
             ELSE [a |-> a, ret |-> ARRAY_SUCCESS,
                   idx |-> CHOOSE i \in hits : \A j \in hits : j <= i]

\* array_find: has_idx is whether p_idx is non-null (cmp_f is non-null in a
\* created array); idx is what *p_idx receives, written only on success.
\* The loop returns at the first slot that compares equal to the key.
array_find(p, a, p_key, has_idx, mem) ==
    IF p = NULL \/ p_key = NULL \/ ~has_idx
    THEN [a |-> a, ret |-> ARRAY_INVALID_ARGUMENT, idx |-> 0]
    ELSE LET hits == {i \in 0..(a.len - 1) :
                         compare_ints(mem, p_key, a.pp_array[i + 1]) = 0}
         IN  IF hits = {}
             THEN [a |-> a, ret |-> ARRAY_NOT_FOUND, idx |-> 0]
             ELSE [a |-> a, ret |-> ARRAY_SUCCESS,
                   idx |-> CHOOSE i \in hits : \A j \in hits : i <= j]

\* array_clone that copies the element pointers instead of the elements
array_clone_shallow(p_ori, a, ok1, ok2, ok3, copies) ==
    IF p_ori = NULL \/ array_create(a.cap, TRUE, TRUE, TRUE, TRUE, ok1, ok2).p = NULL \/ ~ok3
    THEN [p |-> NULL, a |-> NoArr, del |-> <<>>, made |-> <<>>]
    ELSE [p |-> 2, a |-> a, del |-> <<>>, made |-> <<>>]

\* array_clone that does not delete the copies made before a failed copy
array_clone_leaks(p_ori, a, ok1, ok2, ok3, copies) ==
    IF p_ori = NULL
    THEN [p |-> NULL, a |-> NoArr, del |-> <<>>, made |-> <<>>]
    ELSE LET new == array_create(a.cap, TRUE, TRUE, TRUE, TRUE, ok1, ok2)
         IN  IF new.p = NULL \/ ~ok3
             THEN [p |-> NULL, a |-> NoArr, del |-> <<>>, made |-> <<>>]
             ELSE IF Len(copies) < a.len
             THEN [p |-> NULL, a |-> NoArr, del |-> <<>>, made |-> copies]
             ELSE [p |-> 2,
                   a |-> [new.a EXCEPT
                              !.pp_array = [i \in 1..a.cap |->
                                               IF i <= a.len THEN copies[i]
                                               ELSE new.a.pp_array[i]],
                              !.len = a.len],
                   del |-> <<>>, made |-> copies]

\* array_clone: ok1 and ok2 are whether the callocs of array_create succeed,
\* ok3 whether the calloc of the temporary does, copies the results of the
\* successful cpy_f calls (fewer than len: the next one failed).  The source
\* was created with four non-null capabilities.  The new array_t is at
\* address 2.
array_clone(p_ori, a, ok1, ok2, ok3, copies) ==
    IF p_ori = NULL
    THEN [p |-> NULL, a |-> NoArr, del |-> <<>>, made |-> <<>>]
    ELSE LET new == array_create(a.cap, TRUE, TRUE, TRUE, TRUE, ok1, ok2)
         IN  IF new.p = NULL
             THEN [p |-> NULL, a |-> NoArr, del |-> <<>>, made |-> <<>>]
             ELSE IF ~ok3
             THEN [p |-> NULL, a |-> NoArr,
                   del |-> array_destroy(new.p, new.a).del, made |-> <<>>]
             ELSE IF Len(copies) < a.len
             THEN [p |-> NULL, a |-> NoArr,
                   del |-> copies \o array_destroy(new.p, new.a).del,
                   made |-> copies]
             ELSE [p |-> 2,
                   a |-> [new.a EXCEPT
                              !.pp_array = [i \in 1..a.cap |->
                                               IF i <= a.len THEN copies[i]
                                               ELSE new.a.pp_array[i]],
                              !.len = a.len],
                   del |-> <<>>, made |-> copies]

\* ---- stack.c ----
\* A stack_t holds one array: p_stack is the stack pointer, p and a the
\* array it holds.

\* stack_error_from_array
stack_error_from_array(ret) ==
    CASE ret = ARRAY_SUCCESS -> STACK_SUCCESS
      [] ret = ARRAY_NOT_FOUND -> STACK_NOT_FOUND
      [] ret = ARRAY_OUT_OF_BOUNDS -> STACK_OUT_OF_BOUNDS
      [] ret = ARRAY_INVALID_ARGUMENT -> STACK_INVALID_ARGUMENT
      [] ret = ARRAY_ALLOCATION_FAILURE -> STACK_ALLOCATION_FAILURE
      [] OTHER -> STACK_FAILURE

\* stack_create: ok0 is whether the calloc of the stack_t succeeds
stack_create(cap_, del_f, cmp_f, print_f, cpy_f, ok0, ok1, ok2) ==
    IF ok0
    THEN array_create(cap_, del_f, cmp_f, print_f, cpy_f, ok1, ok2)
    ELSE [p |-> NULL, a |-> NoArr]

\* stack_destroy
stack_destroy(p_stack, p, a) ==
    IF p_stack = NULL THEN [del |-> <<>>] ELSE array_destroy(p, a)

\* stack_push
stack_push(p_stack, p, a, p_data, ok) ==
    IF p_stack # NULL /\ p_data # NULL
    THEN LET r == array_push(p, a, p_data, ok)
         IN  [r EXCEPT !.ret = stack_error_from_array(r.ret)]
    ELSE [a |-> a, ret |-> STACK_INVALID_ARGUMENT, del |-> <<>>]

\* a stack_pop that takes the oldest element
stack_pop_oldest(p_stack, p, a, has_out, ok) ==
    IF p_stack = NULL \/ ~has_out
    THEN [a |-> a, ret |-> STACK_INVALID_ARGUMENT, del |-> <<>>, out |-> NULL]
    ELSE IF a.len = 0
    THEN [a |-> a, ret |-> STACK_OUT_OF_BOUNDS, del |-> <<>>, out |-> NULL]
    ELSE [a |-> [a EXCEPT !.pp_array = [i \in 1..a.cap |->
                                           IF i < a.len THEN a.pp_array[i + 1]
                                           ELSE NULL],
                          !.len = a.len - 1],
          ret |-> STACK_SUCCESS, del |-> <<>>, out |-> a.pp_array[1]]

\* stack_pop: has_out is whether p_out is non-null
stack_pop(p_stack, p, a, has_out, ok) ==
    IF p_stack # NULL /\ has_out
    THEN LET r == array_pop(p, a, has_out, ok)
         IN  [r EXCEPT !.ret = stack_error_from_array(r.ret)]
    ELSE [a |-> a, ret |-> STACK_INVALID_ARGUMENT, del |-> <<>>, out |-> NULL]

\* array_size: has_out is whether p_size is non-null, size what it receives
array_size(p, a, has_out) ==
    IF p = NULL \/ ~has_out
    THEN [ret |-> ARRAY_INVALID_ARGUMENT, size |-> 0]
    ELSE [ret |-> ARRAY_SUCCESS, size |-> a.len]

\* stack_size
stack_size(p_stack, p, a, has_out) ==
    IF p_stack # NULL /\ has_out
    THEN LET r == array_size(p, a, has_out)
         IN  [r EXCEPT !.ret = stack_error_from_array(r.ret)]
    ELSE [ret |-> STACK_INVALID_ARGUMENT, size |-> 0]

\* stack_clone: ok0 is whether the calloc of the new stack_t succeeds, the
\* other arguments are those of array_clone.  p_stack is the stack_t
\* returned (at address 2), p and a the array it holds.
stack_clone(p_ori, p, a, ok0, ok1, ok2, ok3, copies) ==
    IF p_ori = NULL \/ ~ok0
    THEN [p_stack |-> NULL, p |-> NULL, a |-> NoArr, del |-> <<>>,
          made |-> <<>>]
    ELSE LET r == array_clone(p, a, ok1, ok2, ok3, copies)
         IN  [p_stack |-> 2, p |-> r.p, a |-> r.a, del |-> r.del,
              made |-> r.made]

\* ---- linked_list.c ----
\* A list l is [p_list, p_head, node]; node[n] is [p_data, p_next].

\* calloc of a node: the lowest address that holds no node
NodeAlloc(node) ==
    CHOOSE n \in 1..(Cardinality(DOMAIN node) + 1) :
        n \notin DOMAIN node /\ \A m \in 1..(n - 1) : m \in DOMAIN node

\* the nodes of a null-terminated chain from p_curr, in order; the walk ends
\* after k nodes
RECURSIVE Chain(_, _, _)
Chain(node, p_curr, k) ==
    IF p_curr = NULL \/ k = 0 THEN <<>>
    ELSE <<p_curr>> \o Chain(node, node[p_curr].p_next, k - 1)

\* the nodes of the list from the head
LLNodes(l) == Chain(l.node, l.p_head, Cardinality(DOMAIN l.node))

\* the data handles of the list from the head
LLData(l) == [i \in DOMAIN LLNodes(l) |-> l.node[LLNodes(l)[i]].p_data]

\* ll_create: ok is whether calloc succeeds
ll_create(del_f, cmp_f, print_f, cpy_f, ok) ==
    IF ~del_f \/ ~cmp_f \/ ~print_f \/ ~cpy_f \/ ~ok
    THEN NoList
    ELSE [p_list |-> 1, p_head |-> NULL, node |-> <<>>]

\* ll_node_at: the loop from p_curr with index steps left
RECURSIVE ll_node_at_loop(_, _, _)
ll_node_at_loop(node, p_curr, index) ==
    IF p_curr = NULL \/ index = 0 THEN p_curr
    ELSE ll_node_at_loop(node, node[p_curr].p_next, index - 1)

\* ll_node_at
ll_node_at(l, index) ==
    IF l.p_list = NULL THEN NULL ELSE ll_node_at_loop(l.node, l.p_head, index)

\* the node map with a new node (ll_create_node) at address p_new
WithNode(node, p_new, rec) ==
    [n \in DOMAIN node \cup {p_new} |-> IF n = p_new THEN rec ELSE node[n]]

\* the node map without the node at address p_node (free)
WithoutNode(node, p_node) == [n \in DOMAIN node \ {p_node} |-> node[n]]

\* an ll_insert that takes index = size for out of bounds
ll_insert_no_append(l, p_data, index, ok) ==
    IF l.p_list = NULL \/ p_data = NULL
    THEN [l |-> l, ret |-> LL_INVALID_ARGUMENT, del |-> <<>>]
    ELSE IF ~ok
    THEN [l |-> l, ret |-> LL_ALLOCATION_FAILURE, del |-> <<>>]
    ELSE IF ll_node_at(l, index) = NULL
    THEN [l |-> l, ret |-> LL_OUT_OF_BOUNDS, del |-> <<>>]
    ELSE LET p_new == NodeAlloc(l.node)
         IN  IF index = 0
             THEN [l |-> [l EXCEPT
                            !.node = WithNode(l.node, p_new,
                                         [p_data |-> p_data,
                                          p_next |-> l.p_head]),
                            !.p_head = p_new],
                   ret |-> LL_SUCCESS, del |-> <<>>]
             ELSE LET p_prev == ll_node_at(l, index - 1)
                      linked == WithNode(l.node, p_new,
                                    [p_data |-> p_data,
                                     p_next |-> l.node[p_prev].p_next])
                  IN  [l |-> [l EXCEPT !.node =
                                 [linked EXCEPT ![p_prev].p_next = p_new]],
                       ret |-> LL_SUCCESS, del |-> <<>>]

\* ll_insert: ok is whether the calloc of ll_create_node succeeds
ll_insert(l, p_data, index, ok) ==
    IF l.p_list = NULL \/ p_data = NULL
    THEN [l |-> l, ret |-> LL_INVALID_ARGUMENT, del |-> <<>>]
    ELSE IF ~ok
    THEN [l |-> l, ret |-> LL_ALLOCATION_FAILURE, del |-> <<>>]
    ELSE LET p_new == NodeAlloc(l.node)
         IN  IF index = 0
             THEN [l |-> [l EXCEPT
                            !.node = WithNode(l.node, p_new,
                                         [p_data |-> p_data,
                                          p_next |-> l.p_head]),
                            !.p_head = p_new],
                   ret |-> LL_SUCCESS, del |-> <<>>]
             ELSE LET p_prev == ll_node_at(l, index - 1)
                  IN  IF p_prev = NULL
                      THEN [l |-> l, ret |-> LL_OUT_OF_BOUNDS, del |-> <<>>]
                      ELSE LET linked == WithNode(l.node, p_new,
                                             [p_data |-> p_data,
                                              p_next |-> l.node[p_prev].p_next])
                           IN  [l |-> [l EXCEPT !.node =
                                         [linked EXCEPT ![p_prev].p_next = p_new]],
                                ret |-> LL_SUCCESS, del |-> <<>>]

\* ll_del_at: del is the data handle ll_del_node hands to del_f
ll_del_at(l, index) ==
    IF l.p_list = NULL
    THEN [l |-> l, ret |-> LL_INVALID_ARGUMENT, del |-> <<>>]
    ELSE IF l.p_head = NULL
    THEN [l |-> l, ret |-> LL_OUT_OF_BOUNDS, del |-> <<>>]
    ELSE IF index = 0
    THEN LET p_tmp == l.p_head
         IN  [l |-> [l EXCEPT !.p_head = l.node[p_tmp].p_next,
                              !.node = WithoutNode(l.node, p_tmp)],
              ret |-> LL_SUCCESS, del |-> <<l.node[p_tmp].p_data>>]
    ELSE LET p_prev == ll_node_at(l, index - 1)
         IN  IF p_prev = NULL
             THEN [l |-> l, ret |-> LL_OUT_OF_BOUNDS, del |-> <<>>]
             ELSE IF l.node[p_prev].p_next = NULL
             THEN [l |-> l, ret |-> LL_OUT_OF_BOUNDS, del |-> <<>>]
             ELSE LET p_tmp == l.node[p_prev].p_next
                      unlinked == [l.node EXCEPT
                                      ![p_prev].p_next = l.node[p_tmp].p_next]
                  IN  [l |-> [l EXCEPT !.node = WithoutNode(unlinked, p_tmp)],
                       ret |-> LL_SUCCESS, del |-> <<l.node[p_tmp].p_data>>]

\* ll_clear: every node is deleted from the head on
ll_clear(l) ==
    IF l.p_list = NULL
    THEN [l |-> l, del |-> <<>>]
    ELSE [l |-> [l EXCEPT !.p_head = NULL, !.node = <<>>], del |-> LLData(l)]

\* ll_destroy
ll_destroy(l) == [l |-> NoList, del |-> ll_clear(l).del]

\* the while loop of ll_reverse
RECURSIVE ll_reverse_loop(_, _, _)
ll_reverse_loop(node, p_prev, p_curr) ==
    IF p_curr = NULL THEN [node |-> node, p_prev |-> p_prev]
    ELSE LET p_next == node[p_curr].p_next
         IN  ll_reverse_loop([node EXCEPT ![p_curr].p_next = p_prev],
                             p_curr, p_next)

\* an ll_reverse that leaves the old head linked to its successor
ll_reverse_keeps_first(l) ==
    IF l.p_list = NULL
    THEN [l |-> l, ret |-> LL_INVALID_ARGUMENT]
    ELSE IF l.p_head = NULL
    THEN [l |-> l, ret |-> LL_SUCCESS]
    ELSE LET r == ll_reverse_loop(l.node, l.p_head, l.node[l.p_head].p_next)
         IN  [l |-> [l EXCEPT !.node = r.node, !.p_head = r.p_prev],
              ret |-> LL_SUCCESS]

\* ll_reverse
ll_reverse(l) ==
    IF l.p_list = NULL
    THEN [l |-> l, ret |-> LL_INVALID_ARGUMENT]
    ELSE LET r == ll_reverse_loop(l.node, NULL, l.p_head)
         IN  [l |-> [l EXCEPT !.node = r.node, !.p_head = r.p_prev],
              ret |-> LL_SUCCESS]

\* ---- circular_linked_list.c ----
\* A ring l is [p_list, p_head, node, pc, p_current, size]: node[n] is
\* [p_data, p_next]; pc, p_current and size are the position and the locals
\* of a running circular_linked_list_size.  A node that was freed is no
\* longer in node.

\* no circular list
NoRing ==
    [p_list |-> NULL, p_head |-> NULL, node |-> <<>>, pc |-> "idle",
     p_current |-> NULL, size |-> 0]

\* whether p_head is null or points at a node that has not been freed
HeadLive(l) == l.p_head = NULL \/ l.p_head \in DOMAIN l.node

\* the nodes met from p_curr along p_next up to the return to p_head, a
\* freed node or the k-th node
RECURSIVE RingChain(_, _, _, _)
RingChain(node, p_head, p_curr, k) ==
    IF k = 0 \/ p_curr \notin DOMAIN node THEN <<>>
    ELSE <<p_curr>> \o
         (IF node[p_curr].p_next = p_head THEN <<>>
          ELSE RingChain(node, p_head, node[p_curr].p_next, k - 1))

\* the nodes of the ring from the head
RingNodes(l) == RingChain(l.node, l.p_head, l.p_head, Cardinality(DOMAIN l.node))

\* the data handles of the ring from the head
RingData(l) == [i \in DOMAIN RingNodes(l) |-> l.node[RingNodes(l)[i]].p_data]

\* circular_linked_list_create: ok is whether calloc succeeds
circular_linked_list_create(del_f, cmp_f, print_f, ok) ==
    IF del_f /\ cmp_f /\ print_f /\ ok
    THEN [NoRing EXCEPT !.p_list = 1]
    ELSE NoRing

\* the do-while loop of circular_linked_list_insert and
\* circular_linked_list_del_at, entered with p_curr and count
RECURSIVE cll_traverse(_, _, _, _, _)
cll_traverse(node, p_head, p_curr, count, index) ==
    IF node[p_curr].p_next # p_head /\ count + 1 < index
    THEN cll_traverse(node, p_head, node[p_curr].p_next, count + 1, index)
    ELSE [p_prev |-> p_curr, p_curr |-> node[p_curr].p_next,
          count |-> count + 1]

\* the while loop of circular_linked_list_del_at that finds the node before
\* the head
RECURSIVE cll_last(_, _, _)
cll_last(node, p_head, p_curr) ==
    IF node[p_curr].p_next # p_head
    THEN cll_last(node, p_head, node[p_curr].p_next)
    ELSE p_curr

\* circular_linked_list_insert: ok is whether the calloc of
\* circular_linked_list_create_node succeeds; the new node points to itself
circular_linked_list_insert(l, p_data, index, ok) ==
    IF l.p_list = NULL \/ p_data = NULL
    THEN [l |-> l, del |-> <<>>]
    ELSE IF 0 > index
    THEN [l |-> l, del |-> <<p_data>>]
    ELSE IF ~ok
    THEN [l |-> l, del |-> <<>>]
    ELSE LET p_new_node == NodeAlloc(l.node)
         IN  IF l.p_head = NULL
             THEN [l |-> [l EXCEPT
                            !.node = WithNode(l.node, p_new_node,
                                         [p_data |-> p_data,
                                          p_next |-> p_new_node]),
                            !.p_head = p_new_node],
                   del |-> <<>>]
             ELSE LET t == cll_traverse(l.node, l.p_head, l.p_head, 0, index)
                  IN  IF index = 0
                      THEN [l |-> [l EXCEPT
                                     !.node =
                                        [WithNode(l.node, p_new_node,
                                             [p_data |-> p_data,
                                              p_next |-> l.p_head])
                                         EXCEPT ![t.p_prev].p_next = p_new_node],
                                     !.p_head = p_new_node],
                            del |-> <<>>]
                      ELSE [l |-> [l EXCEPT
                                     !.node =
                                        [WithNode(l.node, p_new_node,
                                             [p_data |-> p_data,
                                              p_next |-> t.p_curr])
                                         EXCEPT ![t.p_prev].p_next = p_new_node]],
                            del |-> <<>>]

\* circular_linked_list_preappend
circular_linked_list_preappend(l, p_data, ok) ==
    circular_linked_list_insert(l, p_data, 0, ok)

\* circular_linked_list_del_at: p_head is left as it is when the node the
\* traversal stops at is the head
circular_linked_list_del_at(l, index) ==
    IF l.p_list = NULL \/ index < 0 \/ l.p_head = NULL
    THEN [l |-> l, del |-> <<>>]
    ELSE IF index = 0
    THEN IF l.node[l.p_head].p_next = l.p_head
         THEN [l |-> [l EXCEPT !.node = WithoutNode(l.node, l.p_head),
                               !.p_head = NULL],
               del |-> <<l.node[l.p_head].p_data>>]
         ELSE LET p_curr == cll_last(l.node, l.p_head, l.p_head)
                  p_prev == l.p_head
                  relinked == [l.node EXCEPT
                                 ![p_curr].p_next = l.node[l.p_head].p_next]
              IN  [l |-> [l EXCEPT !.node = WithoutNode(relinked, p_prev),
                                   !.p_head = l.node[l.p_head].p_next],
                   del |-> <<l.node[p_prev].p_data>>]
    ELSE LET t == cll_traverse(l.node, l.p_head, l.p_head, 0, index)
         IN  IF t.count = index
             THEN LET relinked == [l.node EXCEPT
                                     ![t.p_prev].p_next = l.node[t.p_curr].p_next]
                  IN  [l |-> [l EXCEPT !.node = WithoutNode(relinked, t.p_curr)],
                       del |-> <<l.node[t.p_curr].p_data>>]
             ELSE [l |-> l, del |-> <<>>]

\* circular_linked_list_destroy: the nodes after the head up to the return
\* to the head, then the head
circular_linked_list_destroy(l) ==
    IF l.p_list = NULL THEN [l |-> l, del |-> <<>>]
    ELSE IF l.p_head = NULL THEN [l |-> NoRing, del |-> <<>>]
    ELSE [l |-> NoRing, del |-> Tail(RingData(l)) \o <<RingData(l)[1]>>]

\* ---- doubly_linked_list.c ----
\* A list l is [p_list, p_head, node]; node[n] is [p_data, p_next, p_prev].

\* doubly_linked_list_create: ok is whether calloc succeeds
doubly_linked_list_create(del_f, cmp_f, print_f, ok) ==
    IF del_f /\ cmp_f /\ print_f /\ ok
    THEN [p_list |-> 1, p_head |-> NULL, node |-> <<>>]
    ELSE NoList

\* the while loop of doubly_linked_list_insert
RECURSIVE dll_traverse(_, _, _, _, _)
dll_traverse(node, p_curr, p_prev, count, index) ==
    IF p_curr # NULL /\ count < index
    THEN dll_traverse(node, node[p_curr].p_next, p_curr, count + 1, index)
    ELSE [p_prev |-> p_prev, p_curr |-> p_curr, count |-> count]

\* a doubly_linked_list_insert that leaves the old head's p_prev as it was
doubly_linked_list_insert_stale_prev(l, p_data, index, ok) ==
    IF l.p_list = NULL \/ p_data = NULL
    THEN [l |-> l, del |-> <<>>]
    ELSE IF 0 > index
    THEN [l |-> l, del |-> <<p_data>>]
    ELSE IF ~ok
    THEN [l |-> l, del |-> <<>>]
    ELSE LET p_new_node == NodeAlloc(l.node)
         IN  IF 0 = index
             THEN LET linked == WithNode(l.node, p_new_node,
                                    [p_data |-> p_data, p_next |-> l.p_head,
                                     p_prev |-> NULL])
                  IN  [l |-> [l EXCEPT
                                !.node = linked,
                                !.p_head = p_new_node],
                       del |-> <<>>]
             ELSE LET t == dll_traverse(l.node, l.p_head, NULL, 0, index)
                  IN  IF t.count = index
                      THEN LET linked == WithNode(l.node, p_new_node,
                                             [p_data |-> p_data,
                                              p_next |-> t.p_curr,
                                              p_prev |-> t.p_prev])
                               back == IF t.p_curr # NULL
                                       THEN [linked EXCEPT
                                               ![t.p_curr].p_prev = p_new_node]
                                       ELSE linked
                           IN  [l |-> [l EXCEPT !.node =
                                         [back EXCEPT
                                            ![t.p_prev].p_next = p_new_node]],
                                del |-> <<>>]
                      ELSE [l |-> l, del |-> <<p_data>>]

\* doubly_linked_list_insert: ok is whether the calloc of
\* doubly_linked_list_create_node succeeds; an index past the end deletes
\* the new node and its element
doubly_linked_list_insert(l, p_data, index, ok) ==
    IF l.p_list = NULL \/ p_data = NULL
    THEN [l |-> l, del |-> <<>>]
    ELSE IF 0 > index
    THEN [l |-> l, del |-> <<p_data>>]
    ELSE IF ~ok
    THEN [l |-> l, del |-> <<>>]
    ELSE LET p_new_node == NodeAlloc(l.node)
         IN  IF 0 = index
             THEN LET linked == WithNode(l.node, p_new_node,
                                    [p_data |-> p_data, p_next |-> l.p_head,
                                     p_prev |-> NULL])
                  IN  [l |-> [l EXCEPT
                                !.node = IF l.p_head # NULL
                                        THEN [linked EXCEPT
                                                ![l.p_head].p_prev = p_new_node]
                                        ELSE linked,
                                !.p_head = p_new_node],
                       del |-> <<>>]
             ELSE LET t == dll_traverse(l.node, l.p_head, NULL, 0, index)
                  IN  IF t.count = index
                      THEN LET linked == WithNode(l.node, p_new_node,
                                             [p_data |-> p_data,
                                              p_next |-> t.p_curr,
                                              p_prev |-> t.p_prev])
                               back == IF t.p_curr # NULL
                                       THEN [linked EXCEPT
                                               ![t.p_curr].p_prev = p_new_node]
                                       ELSE linked
                           IN  [l |-> [l EXCEPT !.node =
                                         [back EXCEPT
                                            ![t.p_prev].p_next = p_new_node]],
                                del |-> <<>>]
                      ELSE [l |-> l, del |-> <<p_data>>]

\* doubly_linked_list_preappend
doubly_linked_list_preappend(l, p_data, ok) ==
    doubly_linked_list_insert(l, p_data, 0, ok)

\* the while loop of doubly_linked_list_del_at: the node at index, or NULL
RECURSIVE dll_at(_, _, _, _)
dll_at(node, p_current, count, index) ==
    IF p_current = NULL \/ index = count THEN p_current
    ELSE dll_at(node, node[p_current].p_next, count + 1, index)

\* doubly_linked_list_del_at
doubly_linked_list_del_at(l, index) ==
    IF l.p_list = NULL \/ 0 > index
    THEN [l |-> l, del |-> <<>>]
    ELSE LET p_current == dll_at(l.node, l.p_head, 0, index)
         IN  IF p_current = NULL
             THEN [l |-> l, del |-> <<>>]
             ELSE LET nd == l.node[p_current]
                      fwd == IF 0 # index /\ nd.p_prev # NULL
                             THEN [l.node EXCEPT ![nd.p_prev].p_next = nd.p_next]
                             ELSE l.node
                      bwd == IF nd.p_next # NULL
                             THEN [fwd EXCEPT ![nd.p_next].p_prev =
                                      IF 0 = index THEN NULL ELSE nd.p_prev]
                             ELSE fwd
                  IN  [l |-> [l EXCEPT
                                !.node = WithoutNode(bwd, p_current),
                                !.p_head = IF 0 = index THEN nd.p_next
                                           ELSE l.p_head],
                       del |-> <<nd.p_data>>]

\* the while loop of doubly_linked_list_reverse
RECURSIVE dll_reverse_loop(_, _, _)
dll_reverse_loop(node, p_prev, p_current) ==
    IF p_current = NULL THEN [node |-> node, p_prev |-> p_prev]
    ELSE LET p_next == node[p_current].p_next
         IN  dll_reverse_loop([node EXCEPT ![p_current].p_next = p_prev,
                                           ![p_current].p_prev = p_next],
                              p_current, p_next)

\* doubly_linked_list_reverse
doubly_linked_list_reverse(l) ==
    IF l.p_list = NULL \/ l.p_head = NULL THEN l
    ELSE LET r == dll_reverse_loop(l.node, NULL, l.p_head)
         IN  [l EXCEPT !.node = r.node, !.p_head = r.p_prev]

\* doubly_linked_list_destroy: every node is deleted from the head on
doubly_linked_list_destroy(l) ==
    IF l.p_list = NULL THEN [l |-> l, del |-> <<>>]
    ELSE [l |-> NoList, del |-> LLData(l)]

\* ---- matrix.c ----
\* matrix_error_from_array
matrix_error_from_array(ret) ==
    CASE ret = ARRAY_SUCCESS -> MATRIX_SUCCESS
      [] ret = ARRAY_NOT_FOUND -> MATRIX_NOT_FOUND
      [] ret = ARRAY_OUT_OF_BOUNDS -> MATRIX_OUT_OF_BOUNDS
      [] ret = ARRAY_INVALID_ARGUMENT -> MATRIX_INVALID_ARGUMENT
      [] ret = ARRAY_ALLOCATION_FAILURE -> MATRIX_ALLOCATION_FAILURE
      [] OTHER -> MATRIX_FAILURE

\* matrix_delete_value
matrix_delete_value(m, p_value) ==
    IF m.p_matrix # NULL /\ p_value # NULL THEN <<p_value>> ELSE <<>>

\* matrix_create: ok0 is whether the allocations of matrix_alloc_empty
\* succeed, made how many of the rows array_create succeeds for; a row that
\* cannot be created destroys the (still empty) matrix
matrix_create(rows, cols, del_f, cmp_f, print_f, cpy_f, ok0, made) ==
    IF 0 = rows \/ 0 = cols \/ ~del_f \/ ~cmp_f \/ ~print_f \/ ~cpy_f \/ ~ok0
    THEN NoMatrix
    ELSE IF made < rows
    THEN NoMatrix
    ELSE [p_matrix |-> 1, rows |-> rows, cols |-> cols,
          pp_matrix |-> [idx \in 1..rows |->
                            array_create(cols, del_f, cmp_f, print_f, cpy_f,
                                         TRUE, TRUE).a]]

\* matrix_set: the row is never full when col < cols, so array_set
\* reallocates nothing
matrix_set(m, row, col, p_value) ==
    IF m.p_matrix = NULL \/ p_value = NULL
    THEN [m |-> m, ret |-> MATRIX_INVALID_ARGUMENT, del |-> <<>>]
    ELSE IF row < m.rows /\ col < m.cols
    THEN LET r == array_set(1, m.pp_matrix[row + 1], col, p_value, TRUE)
         IN  [m |-> [m EXCEPT !.pp_matrix[row + 1] = r.a],
              ret |-> matrix_error_from_array(r.ret), del |-> r.del]
    ELSE [m |-> m, ret |-> MATRIX_OUT_OF_BOUNDS,
          del |-> matrix_delete_value(m, p_value)]

\* matrix_get
matrix_get(m, row, col, has_out) ==
    IF m.p_matrix = NULL \/ ~has_out
    THEN [ret |-> MATRIX_INVALID_ARGUMENT, out |-> NULL]
    ELSE IF row >= m.rows \/ col >= m.cols
    THEN [ret |-> MATRIX_OUT_OF_BOUNDS, out |-> NULL]
    ELSE LET r == array_get(1, m.pp_matrix[row + 1], col, has_out)
         IN  [ret |-> matrix_error_from_array(r.ret), out |-> r.out]

\* what the rows from the idx-th on hand to del_f when they are destroyed
RECURSIVE MatrixDel(_, _)
MatrixDel(m, idx) ==
    IF idx > m.rows THEN <<>>
    ELSE array_destroy(1, m.pp_matrix[idx]).del \o MatrixDel(m, idx + 1)

\* matrix_destroy (matrix_clear, then free)
matrix_destroy(m) ==
    IF m.p_matrix = NULL THEN [m |-> m, del |-> <<>>]
    ELSE [m |-> NoMatrix, del |-> MatrixDel(m, 1)]

\* ---- Sort and SortedSearch (described in the specification only) ----

\* the slots j and j + 1 of s exchanged
SwapAdjacent(s, j) == [s EXCEPT ![j] = s[j + 1], ![j + 1] = s[j]]

\* one pass of adjacent swaps over s[j..n], by compare
RECURSIVE BubblePass(_, _, _, _)
BubblePass(s, mem, j, n) ==
    IF j >= n THEN s
    ELSE BubblePass(IF compare_ints(mem, s[j], s[j + 1]) > 0
                    THEN SwapAdjacent(s, j) ELSE s,
                    mem, j + 1, n)

\* bubble sort of s[1..n]: each pass takes the greatest element to the end
RECURSIVE BubbleSort(_, _, _)
BubbleSort(s, mem, n) ==
    IF n <= 1 THEN s ELSE BubbleSort(BubblePass(s, mem, 1, n), mem, n - 1)

\* Sort that makes a single pass of adjacent swaps
array_sort_one_pass(p, a, mem) ==
    IF p = NULL
    THEN [a |-> a, ret |-> ARRAY_INVALID_ARGUMENT]
    ELSE [a |-> [a EXCEPT !.pp_array = BubblePass(a.pp_array, mem, 1, a.len)],
          ret |-> ARRAY_SUCCESS]

\* Sort: in place, by compare
array_sort(p, a, mem) ==
    IF p = NULL
    THEN [a |-> a, ret |-> ARRAY_INVALID_ARGUMENT]
    ELSE [a |-> [a EXCEPT !.pp_array = BubbleSort(a.pp_array, mem, a.len)],
          ret |-> ARRAY_SUCCESS]

\* the binary search on slots low..high (counted from 0): mid = low +
\* (high - low) / 2, left when compare(mid_value, key) > 0, right when < 0;
\* -1 when the range is empty
RECURSIVE BinarySearch(_, _, _, _, _)
BinarySearch(a, mem, p_key, low, high) ==
    IF low > high THEN -1
    ELSE LET mid == low + (high - low) \div 2
             c == compare_ints(mem, a.pp_array[mid + 1], p_key)
         IN  IF c = 0 THEN mid
             ELSE IF c > 0 THEN BinarySearch(a, mem, p_key, low, mid - 1)
             ELSE BinarySearch(a, mem, p_key, mid + 1, high)

\* SortedSearch that leaves the last slot out of the range
array_sorted_search_short(p, a, p_key, has_idx, mem) ==
    IF p = NULL \/ p_key = NULL \/ ~has_idx
    THEN [a |-> a, ret |-> ARRAY_INVALID_ARGUMENT, idx |-> 0]
    ELSE LET i == BinarySearch(a, mem, p_key, 0, a.len - 2)
         IN  IF i < 0 THEN [a |-> a, ret |-> ARRAY_NOT_FOUND, idx |-> 0]
             ELSE [a |-> a, ret |-> ARRAY_SUCCESS, idx |-> i]

\* SortedSearch: idx is the index found
array_sorted_search(p, a, p_key, has_idx, mem) ==
    IF p = NULL \/ p_key = NULL \/ ~has_idx
    THEN [a |-> a, ret |-> ARRAY_INVALID_ARGUMENT, idx |-> 0]
    ELSE LET i == BinarySearch(a, mem, p_key, 0, a.len - 1)
         IN  IF i < 0 THEN [a |-> a, ret |-> ARRAY_NOT_FOUND, idx |-> 0]
             ELSE [a |-> a, ret |-> ARRAY_SUCCESS, idx |-> i]

\* ---- the state machine ----

\* the heap after del_f was called on the handles of d, in order
HeapAfter(h, d) == h \ Range(d)

\* the contents of the allocations of h, which are live before the step
Mem(h) == [x \in h |-> val[x]]

\* del_f on a handle that is not live, or twice on one handle
BadFree(h, d) ==
    \/ \E i \in 1..Len(d) : d[i] \notin h
    \/ Cardinality(Range(d)) # Len(d)

\* the record of a call: ok is the outcome of the realloc the call may make,
\* has_out whether the call was given a non-null p_out (where it takes one)
Call(op, index, value, ret, out, del, ok) ==
    [op |-> op, index |-> index, value |-> value, ret |-> ret, out |-> out,
     del |-> del, ok |-> ok, has_out |-> TRUE,
     fns |-> <<TRUE, TRUE, TRUE, TRUE>>, pre |-> Arr, pre_p |-> p_array,
     pre_list |-> NoList,
     pre_owned |-> owned, pre_heap |-> heap]

Store(a) ==
    /\ pp_array' = a.pp_array
    /\ len' = a.len
    /\ cap' = a.cap

Init ==
    /\ p_array = NULL
    /\ pp_array = <<>>
    /\ len = 0
    /\ cap = 0
    /\ heap = {}
    /\ owned = {}
    /\ badfree = FALSE
    /\ val = <<>>
    /\ p_clone = NULL
    /\ clone = NoArr
    /\ ll = NoList
    /\ cll = NoRing
    /\ dll = NoList
    /\ matrix = NoMatrix
    /\ last = [op |-> "none", index |-> 0, value |-> NULL, ret |-> ARRAY_SUCCESS,
               out |-> NULL, del |-> <<>>, ok |-> TRUE, has_out |-> TRUE,
               fns |-> <<TRUE, TRUE, TRUE, TRUE>>,
               pre |-> NoArr,
               pre_p |-> NULL, pre_list |-> NoList,
               pre_owned |-> {}, pre_heap |-> {}]

\* what the caller may pass as an element: NULL or a handle it holds
Values == {NULL} \cup owned

\* the outcomes of a realloc: it is only called when the call needs it
Realloc(needed) == IF needed THEN BOOLEAN ELSE {TRUE}

\* whether an insert at a valid index has to grow the buffer first
Grows == array_is_full(p_array, Arr)

\* whether a removal leaves the array under the shrink threshold
Shrinks ==
    /\ p_array # NULL
    /\ len > 0
    /\ cap > ARRAY_MIN_CAPACITY
    /\ len - 1 < cap \div ARRAY_SHRINK_THRESHOLD_DIVISOR

\* the caller allocates an element and writes its content (malloc(sizeof(int))
\* and *val = ... in the tests)
CallerMalloc(lim, contents) ==
    /\ Cardinality(owned) < MaxOwned
    /\ Malloc(heap, lim) # NULL
    /\ heap' = heap \cup {Malloc(heap, lim)}
    /\ \E c \in contents :
          val' = [x \in heap \cup {Malloc(heap, lim)} |->
                     IF x \in heap THEN val[x] ELSE c]
    /\ owned' = owned \cup {Malloc(heap, lim)}
    /\ UNCHANGED <<others, p_array, pp_array, len, cap, badfree, p_clone, clone>>
    /\ last' = Call("malloc", 0, Malloc(heap, lim), ARRAY_SUCCESS, NULL, <<>>, TRUE)

\* the caller releases an element it holds (del_f(p_elem) / free in the tests)
CallerFree ==
    \E v \in owned :
        /\ heap' = heap \ {v}
        /\ val' = Mem(heap \ {v})
        /\ owned' = owned \ {v}
        /\ badfree' = (badfree \/ v \notin heap)
        /\ UNCHANGED <<others, p_array, pp_array, len, cap, p_clone, clone>>
        /\ last' = Call("free", 0, v, ARRAY_SUCCESS, NULL, <<>>, TRUE)

Create(caps) ==
    /\ p_array = NULL
    /\ \E c \in caps, del_f, cmp_f, print_f, cpy_f, ok1, ok2 \in BOOLEAN :
          LET r == array_create(c, del_f, cmp_f, print_f, cpy_f, ok1, ok2)
          IN  /\ p_array' = r.p
              /\ Store(r.a)
              /\ last' = [Call("create", c, NULL, ARRAY_SUCCESS, NULL, <<>>,
                               ok1 /\ ok2)
                             EXCEPT !.fns = <<del_f, cmp_f, print_f, cpy_f>>]
    /\ UNCHANGED <<others, heap, owned, badfree, val, p_clone, clone>>

Destroy ==
    /\ p_array # NULL
    /\ LET r == array_destroy(p_array, Arr)
       IN  /\ heap' = HeapAfter(heap, r.del)
           /\ val' = Mem(HeapAfter(heap, r.del))
           /\ badfree' = (badfree \/ BadFree(heap, r.del))
           /\ last' = Call("destroy", 0, NULL, ARRAY_SUCCESS, NULL, r.del, TRUE)
    /\ p_array' = NULL
    /\ Store(NoArr)
    /\ UNCHANGED <<others, owned, p_clone, clone>>

\* an insert-like call: the caller gives up the element only on success
Inserted(op, index, v, ok, r) ==
    /\ Store(r.a)
    /\ heap' = HeapAfter(heap, r.del)
    /\ val' = Mem(HeapAfter(heap, r.del))
    /\ badfree' = (badfree \/ BadFree(heap, r.del))
    /\ owned' = IF r.ret = ARRAY_SUCCESS THEN owned \ {v} ELSE owned
    /\ last' = Call(op, index, v, r.ret, NULL, r.del, ok)
    /\ UNCHANGED <<others, p_array, p_clone, clone>>

Insert(indices) ==
    \E index \in indices, v \in Values, ok \in Realloc(Grows) :
        Inserted("insert", index, v, ok, array_insert(p_array, Arr, index, v, ok))

Push ==
    \E v \in Values, ok \in Realloc(Grows) :
        Inserted("push", len, v, ok, array_push(p_array, Arr, v, ok))

Set ==
    \E index \in 0..(len + 1), v \in Values, ok \in Realloc(Grows) :
        Inserted("set", index, v, ok, array_set(p_array, Arr, index, v, ok))

Remove(indices) ==
    \E index \in indices, ok \in Realloc(Shrinks) :
        LET r == array_remove(p_array, Arr, index, ok)
        IN  /\ Store(r.a)
            /\ heap' = HeapAfter(heap, r.del)
            /\ val' = Mem(HeapAfter(heap, r.del))
            /\ badfree' = (badfree \/ BadFree(heap, r.del))
            /\ last' = Call("remove", index, NULL, r.ret, NULL, r.del, ok)
            /\ UNCHANGED <<others, p_array, owned, p_clone, clone>>

Pop ==
    /\ Cardinality(owned) < MaxOwned
    /\ \E has_out \in BOOLEAN, ok \in Realloc(Shrinks) :
          LET r == array_pop(p_array, Arr, has_out, ok)
          IN  /\ Store(r.a)
              /\ owned' = IF r.out # NULL THEN owned \cup {r.out} ELSE owned
              /\ last' = [Call("pop", 0, NULL, r.ret, r.out, r.del, ok)
                              EXCEPT !.has_out = has_out]
              /\ UNCHANGED <<others, p_array, heap, badfree, val, p_clone, clone>>

\* the element the caller has just pushed with success, NULL if the last call
\* was anything else
Pushed ==
    IF last.op = "push" /\ last.ret = ARRAY_SUCCESS THEN last.value ELSE NULL

\* array_get: the record keeps in value the element just pushed, the one the
\* caller compares *p_out with; the caller gains no ownership
Get ==
    \E index \in 0..len, has_out \in BOOLEAN :
        LET r == array_get(p_array, Arr, index, has_out)
        IN  /\ Store(r.a)
            /\ last' = [Call("get", index, Pushed, r.ret, r.out, <<>>, TRUE)
                            EXCEPT !.has_out = has_out]
            /\ UNCHANGED <<others, p_array, heap, owned, badfree, val, p_clone, clone>>

Clear ==
    /\ LET r == array_clear(p_array, Arr)
       IN  /\ Store(r.a)
           /\ heap' = HeapAfter(heap, r.del)
           /\ val' = Mem(HeapAfter(heap, r.del))
           /\ badfree' = (badfree \/ BadFree(heap, r.del))
           /\ last' = Call("clear", 0, NULL, ARRAY_SUCCESS, NULL, r.del, TRUE)
    /\ UNCHANGED <<others, p_array, owned, p_clone, clone>>

Fill(lim, counts) ==
    \E v \in Values, ok \in BOOLEAN,
       n \in counts \cap 0..Min(cap, FreeCells(heap, lim)) :
        LET copies == MallocN(heap, lim, n)
            r == array_fill(p_array, Arr, v, ok, copies)
        IN  /\ Store(r.a)
            /\ heap' = HeapAfter(heap \cup Range(r.made), r.del)
            /\ val' = [x \in HeapAfter(heap \cup Range(r.made), r.del) |->
                          IF x \in heap THEN val[x] ELSE copy_int(val, v)]
            /\ badfree' = (badfree \/ BadFree(heap \cup Range(r.made), r.del))
            /\ last' = Call("fill", Len(r.made), v, r.ret, NULL, r.del, ok)
            /\ UNCHANGED <<others, p_array, owned, p_clone, clone>>

\* array_clone into the caller's p_clone: the first n calls of cpy_f succeed
\* (no more than the heap has room for) and the next one, if the loop gets
\* to it, fails; copy i has the content of element i.  The record keeps n
\* in index and whether the three callocs succeeded in ok.
Clone(lim) ==
    /\ p_clone = NULL
    /\ \E ok1, ok2, ok3 \in BOOLEAN, n \in 0..Min(len, FreeCells(heap, lim)) :
          LET r == array_clone(p_array, Arr, ok1, ok2, ok3,
                               MallocN(heap, lim, n))
              h == HeapAfter(heap \cup Range(r.made), r.del)
          IN  /\ p_clone' = r.p
              /\ clone' = r.a
              /\ heap' = h
              /\ val' = [x \in h |->
                            IF x \in heap THEN val[x]
                            ELSE copy_int(val,
                                     pp_array[CHOOSE i \in 1..Len(r.made) :
                                                  r.made[i] = x])]
              /\ badfree' = (badfree \/ BadFree(heap \cup Range(r.made), r.del))
              /\ last' = Call("clone", n, NULL, ARRAY_SUCCESS, NULL, r.del,
                              ok1 /\ ok2 /\ ok3)
    /\ UNCHANGED <<others, p_array, pp_array, len, cap, owned>>

\* array_destroy(p_clone)
DestroyClone ==
    /\ p_clone # NULL
    /\ LET r == array_destroy(p_clone, clone)
       IN  /\ heap' = HeapAfter(heap, r.del)
           /\ val' = Mem(HeapAfter(heap, r.del))
           /\ badfree' = (badfree \/ BadFree(heap, r.del))
           /\ last' = Call("destroy_clone", 0, NULL, ARRAY_SUCCESS, NULL, r.del,
                           TRUE)
    /\ p_clone' = NULL
    /\ clone' = NoArr
    /\ UNCHANGED <<others, p_array, pp_array, len, cap, owned>>

\* the array_t a pointer of the caller designates
ArrOf(p) == IF p = NULL THEN NoArr ELSE IF p = p_clone THEN clone ELSE Arr

\* array_is_equal on any two of NULL, p_array and p_clone: the record keeps
\* the two pointers in index and value and the bool returned in ret (1 is
\* true)
IsEqual ==
    \E p_a, p_b \in {NULL, p_array, p_clone} :
        /\ last' = Call("is_equal", p_a, p_b,
                        IF array_is_equal(p_a, ArrOf(p_a), p_b, ArrOf(p_b), val)
                        THEN 1 ELSE 0,
                        NULL, <<>>, TRUE)
        /\ UNCHANGED <<others, p_array, pp_array, len, cap, heap, owned, badfree, val,
                       p_clone, clone>>

\* array_find with a key the caller holds: the record keeps the key in value
\* and *p_idx in out
Find ==
    \E p_key \in Values, has_idx \in BOOLEAN :
        LET r == array_find(p_array, Arr, p_key, has_idx, val)
        IN  /\ Store(r.a)
            /\ last' = [Call("find", 0, p_key, r.ret, r.idx, <<>>, TRUE)
                            EXCEPT !.has_out = has_idx]
            /\ UNCHANGED <<others, p_array, heap, owned, badfree, val, p_clone, clone>>

\* array_foreach(p_array, multiply_by_five) or with a null func, while the
\* contents stay within MaxContent
Foreach ==
    /\ \A x \in Range(Contents(Arr)) : multiply_by_five(val[x]) <= MaxContent
    /\ \E has_func \in BOOLEAN :
          LET r == array_foreach(p_array, Arr, has_func, val)
          IN  /\ Store(r.a)
              /\ val' = r.mem
              /\ last' = Call("foreach", 0, NULL, r.ret, NULL, <<>>, TRUE)
    /\ UNCHANGED <<others, p_array, heap, owned, badfree, p_clone, clone>>

\* Sort(array)
Sort ==
    LET r == array_sort(p_array, Arr, val)
    IN  /\ Store(r.a)
        /\ last' = Call("sort", 0, NULL, r.ret, NULL, <<>>, TRUE)
        /\ UNCHANGED <<others, p_array, heap, owned, badfree, val, p_clone, clone>>

\* SortedSearch(array, key) with a key the caller holds: the record keeps
\* the key in value and the index found in out
SortedSearch ==
    \E p_key \in Values, has_idx \in BOOLEAN :
        LET r == array_sorted_search(p_array, Arr, p_key, has_idx, val)
        IN  /\ Store(r.a)
            /\ last' = [Call("sorted_search", 0, p_key, r.ret, r.idx, <<>>, TRUE)
                            EXCEPT !.has_out = has_idx]
            /\ UNCHANGED <<others, p_array, heap, owned, badfree, val, p_clone, clone>>

\* every index up to one past the last valid one
InsertIndices == 0..(len + 1)

RemoveIndices == 0..len

Next ==
    \/ CallerMalloc(MaxHandles, OneContent)
    \/ CallerFree
    \/ Create(InitCaps)
    \/ Destroy
    \/ Insert(InsertIndices)
    \/ Push
    \/ Set
    \/ Remove(RemoveIndices)
    \/ Pop
    \/ Get
    \/ Clear
    \/ Fill(MaxHandles, 0..cap)

Spec == Init /\ [][Next]_vars

\* The bulk workload: an array of large capacity is filled with array_fill
\* when empty and inserted into when full.
NextBig ==
    \/ CallerMalloc(BigHeap, OneContent)
    \/ CallerFree
    \/ Create(BigCaps)
    \/ Destroy
    \/ (Grows /\ Insert({0, len \div 2, len, len + 1}))
    \/ (Grows /\ Push)
    \/ (len = 0 /\ Fill(BigHeap, {0, 1, cap - 1, cap}))

SpecBig == Init /\ [][NextBig]_vars

\* The resize workload of test_array_resize_behavior: the caller allocates
\* one element at a time and pushes it, pops one element at a time and frees
\* it (or pushes it back), or removes at the tail, in any order and to any
\* length the heap allows; it holds no element when it removes or destroys.
NextResize ==
    \/ (owned = {} /\ CallerMalloc(ResizeHeap, OneContent))
    \/ CallerFree
    \/ Create(ResizeCaps)
    \/ (owned = {} /\ Destroy)
    \/ Push
    \/ (owned = {} /\ Pop)
    \/ (owned = {} /\ Remove({IF len > 0 THEN len - 1 ELSE 0}))

SpecResize == Init /\ [][NextResize]_vars

\* The calls of the end-to-end scenarios on an array created with capacity
\* 4: pushes, inserts at index 2 and removes at index 1, in any order, each
\* element allocated just before it is handed over.
NextScenario ==
    \/ (owned = {} /\ CallerMalloc(ScenarioHeap, OneContent))
    \/ CallerFree
    \/ Create(ScenarioCaps)
    \/ (owned = {} /\ Destroy)
    \/ Push
    \/ Insert({2})
    \/ Remove({1})

SpecScenario == Init /\ [][NextScenario]_vars

\* The clone workload of test_array_foreach_clone: elements of differing
\* content are pushed and popped one at a time while there is no clone, the
\* array is cloned at any point, and the array and the clone are destroyed
\* in either order.
NextClone ==
    \/ (owned = {} /\ CallerMalloc(CloneHeap, CloneContents))
    \/ CallerFree
    \/ Create(CloneCaps)
    \/ (owned = {} /\ Destroy)
    \/ (p_clone = NULL /\ Push)
    \/ (p_clone = NULL /\ owned = {} /\ Pop)
    \/ Clone(CloneHeap)
    \/ DestroyClone

SpecClone == Init /\ [][NextClone]_vars

\* The comparison workload: a short array of elements of differing content
\* is cloned, pushed to and popped beside its clone, compared with it and
\* searched for a key the caller holds.
NextEqual ==
    \/ (owned = {} /\ CallerMalloc(EqualHeap, CloneContents))
    \/ CallerFree
    \/ Create(CloneCaps)
    \/ (owned = {} /\ Destroy)
    \/ Push
    \/ (owned = {} /\ Pop)
    \/ Clone(EqualHeap)
    \/ DestroyClone
    \/ IsEqual
    \/ Find

SpecEqual == Init /\ [][NextEqual]_vars

\* The sort scenario: an array of capacity 4 is filled by pushes in any
\* order with elements of the contents of [5,2,8,1] or 99, sorted, and
\* searched for a key the caller holds.
NextSort ==
    \/ (owned = {} /\ CallerMalloc(SortHeap, SortContents))
    \/ CallerFree
    \/ Create(SortCaps)
    \/ (owned = {} /\ Destroy)
    \/ (~Grows /\ Push)
    \/ Sort
    \/ SortedSearch

SpecSort == Init /\ [][NextSort]_vars

\* ---- the stack over the array ----
\* stack_create returns a stack only together with its array, and
\* stack_destroy releases both, so the stack pointer is live exactly when the
\* array pointer is.
p_stack == IF p_array # NULL THEN 1 ELSE NULL

StackCreate(caps) ==
    /\ p_array = NULL
    /\ \E c \in caps, ok0, ok1, ok2 \in BOOLEAN :
          LET r == stack_create(c, TRUE, TRUE, TRUE, TRUE, ok0, ok1, ok2)
          IN  /\ p_array' = r.p
              /\ Store(r.a)
              /\ last' = Call("stack_create", c, NULL, STACK_SUCCESS, NULL,
                              <<>>, ok0 /\ ok1 /\ ok2)
    /\ UNCHANGED <<others, heap, owned, badfree, val, p_clone, clone>>

StackDestroy ==
    /\ p_array # NULL
    /\ LET r == stack_destroy(p_stack, p_array, Arr)
       IN  /\ heap' = HeapAfter(heap, r.del)
           /\ val' = Mem(HeapAfter(heap, r.del))
           /\ badfree' = (badfree \/ BadFree(heap, r.del))
           /\ last' = Call("stack_destroy", 0, NULL, STACK_SUCCESS, NULL,
                           r.del, TRUE)
    /\ p_array' = NULL
    /\ Store(NoArr)
    /\ UNCHANGED <<others, owned, p_clone, clone>>

StackPush ==
    \E v \in Values, ok \in Realloc(Grows) :
        Inserted("stack_push", len, v, ok,
                 stack_push(p_stack, p_array, Arr, v, ok))

StackPop ==
    /\ Cardinality(owned) < MaxOwned
    /\ \E has_out \in BOOLEAN, ok \in Realloc(Shrinks) :
          LET r == stack_pop(p_stack, p_array, Arr, has_out, ok)
          IN  /\ Store(r.a)
              /\ owned' = IF r.out # NULL THEN owned \cup {r.out} ELSE owned
              /\ last' = [Call("stack_pop", 0, NULL, r.ret, r.out, r.del, ok)
                              EXCEPT !.has_out = has_out]
              /\ UNCHANGED <<others, p_array, heap, badfree, val, p_clone, clone>>

\* stack_size: the record keeps in out the size the caller receives
StackSize ==
    \E has_out \in BOOLEAN :
        LET r == stack_size(p_stack, p_array, Arr, has_out)
        IN  /\ last' = [Call("stack_size", 0, NULL, r.ret, r.size, <<>>, TRUE)
                            EXCEPT !.has_out = has_out]
            /\ UNCHANGED <<others, p_array, pp_array, len, cap, heap, owned, badfree,
                           val, p_clone, clone>>

\* stack_clone of the stack: as in Clone the first n calls of cpy_f succeed.
\* The record keeps the stack_t pointer returned in out and n in index; the
\* array the new stack_t holds is p_clone.
StackClone(lim) ==
    /\ p_clone = NULL
    /\ \E ok0, ok1, ok2, ok3 \in BOOLEAN,
          n \in 0..Min(len, FreeCells(heap, lim)) :
          LET r == stack_clone(p_stack, p_array, Arr, ok0, ok1, ok2, ok3,
                               MallocN(heap, lim, n))
              h == HeapAfter(heap \cup Range(r.made), r.del)
          IN  /\ p_clone' = r.p
              /\ clone' = r.a
              /\ heap' = h
              /\ val' = [x \in h |->
                            IF x \in heap THEN val[x]
                            ELSE copy_int(val,
                                     pp_array[CHOOSE i \in 1..Len(r.made) :
                                                  r.made[i] = x])]
              /\ badfree' = (badfree \/ BadFree(heap \cup Range(r.made), r.del))
              /\ last' = Call("stack_clone", n, NULL, STACK_SUCCESS, r.p_stack,
                              r.del, ok0 /\ ok1 /\ ok2 /\ ok3)
    /\ UNCHANGED <<others, p_array, pp_array, len, cap, owned>>

\* stack_destroy of a clone that holds an array
StackDestroyClone ==
    /\ p_clone # NULL
    /\ LET r == stack_destroy(2, p_clone, clone)
       IN  /\ heap' = HeapAfter(heap, r.del)
           /\ val' = Mem(HeapAfter(heap, r.del))
           /\ badfree' = (badfree \/ BadFree(heap, r.del))
           /\ last' = Call("stack_destroy_clone", 0, NULL, STACK_SUCCESS, NULL,
                           r.del, TRUE)
    /\ p_clone' = NULL
    /\ clone' = NoArr
    /\ UNCHANGED <<others, p_array, pp_array, len, cap, owned>>

\* The stack workload of test_stack_push_pop_size: a stack of capacity 5 or
\* 17 is pushed up to three elements of two contents and popped, each popped
\* element being released before the next call; the stack is cloned and the
\* clone destroyed between pushes and pops.
NextStack ==
    \/ (owned = {} /\ CallerMalloc(StackHeap, CloneContents))
    \/ CallerFree
    \/ StackCreate(StackCaps)
    \/ (owned = {} /\ StackDestroy)
    \/ (p_clone = NULL /\ StackPush)
    \/ (p_clone = NULL /\ StackPop)
    \/ StackSize
    \/ StackClone(StackHeap)
    \/ StackDestroyClone

SpecStack == Init /\ [][NextStack]_vars

\* Every call of the array on arrays of capacity 1 and 17 holding up to three
\* elements, through the growth 1 -> 2 -> 4 and the shrink 17 -> 16.
NextFrame ==
    \/ (owned = {} /\ CallerMalloc(FrameHeap, OneContent))
    \/ CallerFree
    \/ Create(FrameCaps)
    \/ (owned = {} /\ Destroy)
    \/ Insert(InsertIndices)
    \/ Push
    \/ Set
    \/ Remove(RemoveIndices)
    \/ (owned = {} /\ Pop)
    \/ Get
    \/ Clear
    \/ Fill(FrameHeap, 0..cap)
    \/ Find
    \/ IsEqual
    \/ Foreach

SpecFrame == Init /\ [][NextFrame]_vars

\* ---- the singly linked list ----
\* a call on a list: the record keeps the list before the call
ListCall(op, index, value, ret, del, ok, l) ==
    [Call(op, index, value, ret, NULL, del, ok) EXCEPT !.pre_list = l]

LLCreate ==
    /\ ll.p_list = NULL
    /\ \E ok \in BOOLEAN :
          /\ ll' = ll_create(TRUE, TRUE, TRUE, TRUE, ok)
          /\ last' = ListCall("ll_create", 0, NULL, LL_SUCCESS, <<>>, ok, ll)
    /\ UNCHANGED <<p_array, pp_array, len, cap, heap, owned, badfree, val,
                   p_clone, clone, cll, dll, matrix>>

LLDestroy ==
    /\ ll.p_list # NULL
    /\ LET r == ll_destroy(ll)
       IN  /\ ll' = r.l
           /\ heap' = HeapAfter(heap, r.del)
           /\ val' = Mem(HeapAfter(heap, r.del))
           /\ badfree' = (badfree \/ BadFree(heap, r.del))
           /\ last' = ListCall("ll_destroy", 0, NULL, LL_SUCCESS, r.del, TRUE, ll)
    /\ UNCHANGED <<p_array, pp_array, len, cap, owned, p_clone, clone, cll,
                   dll, matrix>>

\* ll_insert at any index up to two past the end: the caller gives up the
\* element only on success
LLInsert ==
    \E index \in 0..(Len(LLData(ll)) + 2), p_data \in Values, ok \in BOOLEAN :
        LET r == ll_insert(ll, p_data, index, ok)
        IN  /\ ll' = r.l
            /\ heap' = HeapAfter(heap, r.del)
            /\ val' = Mem(HeapAfter(heap, r.del))
            /\ badfree' = (badfree \/ BadFree(heap, r.del))
            /\ owned' = IF r.ret = LL_SUCCESS THEN owned \ {p_data} ELSE owned
            /\ last' = ListCall("ll_insert", index, p_data, r.ret, r.del, ok, ll)
            /\ UNCHANGED <<p_array, pp_array, len, cap, p_clone, clone, cll,
                           dll, matrix>>

LLDelAt ==
    \E index \in 0..(Len(LLData(ll)) + 1) :
        LET r == ll_del_at(ll, index)
        IN  /\ ll' = r.l
            /\ heap' = HeapAfter(heap, r.del)
            /\ val' = Mem(HeapAfter(heap, r.del))
            /\ badfree' = (badfree \/ BadFree(heap, r.del))
            /\ last' = ListCall("ll_del_at", index, NULL, r.ret, r.del, TRUE, ll)
            /\ UNCHANGED <<p_array, pp_array, len, cap, owned, p_clone, clone,
                           cll, dll, matrix>>

LLReverse ==
    LET r == ll_reverse(ll)
    IN  /\ ll' = r.l
        /\ last' = ListCall("ll_reverse", 0, NULL, r.ret, <<>>, TRUE, ll)
        /\ UNCHANGED <<p_array, pp_array, len, cap, heap, owned, badfree, val,
                       p_clone, clone, cll, dll, matrix>>

\* The singly linked list of up to three elements under inserts and
\* deletions at every index and reversals.
NextLL ==
    \/ (owned = {} /\ CallerMalloc(LLHeap, OneContent))
    \/ CallerFree
    \/ LLCreate
    \/ (owned = {} /\ LLDestroy)
    \/ LLInsert
    \/ LLDelAt
    \/ LLReverse

SpecLL == Init /\ [][NextLL]_vars

\* ---- the circular linked list ----
\* what the caller may pass as an index, for a list of n elements
RingIndices(n) == -1..(n + 1)

CLLCreate ==
    /\ cll.p_list = NULL
    /\ \E ok \in BOOLEAN :
          /\ cll' = circular_linked_list_create(TRUE, TRUE, TRUE, ok)
          /\ last' = ListCall("circular_linked_list_create", 0, NULL,
                              circular_linked_list_create(TRUE, TRUE, TRUE,
                                                          ok).p_list,
                              <<>>, ok, cll)
    /\ UNCHANGED <<p_array, pp_array, len, cap, heap, owned, badfree, val,
                   p_clone, clone, ll, dll, matrix>>

CLLDestroy ==
    /\ cll.p_list # NULL
    /\ HeadLive(cll)
    /\ LET r == circular_linked_list_destroy(cll)
       IN  /\ cll' = r.l
           /\ heap' = HeapAfter(heap, r.del)
           /\ val' = Mem(HeapAfter(heap, r.del))
           /\ badfree' = (badfree \/ BadFree(heap, r.del))
           /\ last' = ListCall("circular_linked_list_destroy", 0, NULL, NULL,
                               r.del, TRUE, cll)
    /\ UNCHANGED <<p_array, pp_array, len, cap, owned, p_clone, clone, ll,
                   dll, matrix>>

\* circular_linked_list_insert and, for index 0,
\* circular_linked_list_preappend: the caller no longer holds the element
\* once it is in the list or was deleted
CLLInsert ==
    /\ HeadLive(cll)
    /\ \E index \in RingIndices(Len(RingData(cll))), p_data \in Values,
          ok \in BOOLEAN :
          LET r == IF index = 0
                   THEN circular_linked_list_preappend(cll, p_data, ok)
                   ELSE circular_linked_list_insert(cll, p_data, index, ok)
          IN  /\ cll' = r.l
              /\ heap' = HeapAfter(heap, r.del)
              /\ val' = Mem(HeapAfter(heap, r.del))
              /\ badfree' = (badfree \/ BadFree(heap, r.del))
              /\ owned' = IF r.l # cll \/ r.del # <<>>
                          THEN owned \ {p_data} ELSE owned
              /\ last' = ListCall("circular_linked_list_insert", index, p_data,
                                  r.l.p_list, r.del, ok, cll)
              /\ UNCHANGED <<p_array, pp_array, len, cap, p_clone, clone, ll,
                             dll, matrix>>

CLLDelAt ==
    /\ HeadLive(cll)
    /\ \E index \in RingIndices(Len(RingData(cll))) :
          LET r == circular_linked_list_del_at(cll, index)
          IN  /\ cll' = r.l
              /\ heap' = HeapAfter(heap, r.del)
              /\ val' = Mem(HeapAfter(heap, r.del))
              /\ badfree' = (badfree \/ BadFree(heap, r.del))
              /\ last' = ListCall("circular_linked_list_del_at", index, NULL,
                                  r.l.p_list, r.del, TRUE, cll)
              /\ UNCHANGED <<p_array, pp_array, len, cap, owned, p_clone,
                             clone, ll, dll, matrix>>

\* circular_linked_list_size is entered: size = 0 and p_current = p_head
CLLSizeCall ==
    /\ HeadLive(cll)
    /\ cll' = [cll EXCEPT !.pc = "size", !.size = 0,
                          !.p_current = IF cll.p_list # NULL THEN cll.p_head
                                        ELSE NULL]
    /\ last' = ListCall("circular_linked_list_size:call", 0, NULL, 0, <<>>,
                        TRUE, cll)
    /\ UNCHANGED <<p_array, pp_array, len, cap, heap, owned, badfree, val,
                   p_clone, clone, ll, dll, matrix>>

\* one turn of the while loop of circular_linked_list_size
CLLSizeStep ==
    /\ cll.pc = "size"
    /\ cll.p_current # NULL
    /\ cll' = [cll EXCEPT
                 !.size = (cll.size + 1) % (2 ^ SizeBits),
                 !.p_current = cll.node[cll.p_current].p_next]
    /\ UNCHANGED <<p_array, pp_array, len, cap, heap, owned, badfree, val,
                   p_clone, clone, ll, dll, matrix, last>>

\* circular_linked_list_size leaves its loop and returns size
CLLSizeReturn ==
    /\ cll.pc = "size"
    /\ cll.p_current = NULL
    /\ cll' = [cll EXCEPT !.pc = "idle", !.size = 0]
    /\ last' = ListCall("circular_linked_list_size", 0, NULL, cll.size, <<>>,
                        TRUE, [cll EXCEPT !.pc = "idle", !.size = 0])
    /\ UNCHANGED <<p_array, pp_array, len, cap, heap, owned, badfree, val,
                   p_clone, clone, ll, dll, matrix>>

\* The circular linked list of up to three elements under inserts and
\* deletions at every index; no other call is made while
\* circular_linked_list_size runs.
NextCLL ==
    \/ (cll.pc = "idle" /\ owned = {} /\ CallerMalloc(CLLHeap, OneContent))
    \/ (cll.pc = "idle" /\ CallerFree)
    \/ (cll.pc = "idle" /\ CLLCreate)
    \/ (cll.pc = "idle" /\ owned = {} /\ CLLDestroy)
    \/ (cll.pc = "idle" /\ CLLInsert)
    \/ (cll.pc = "idle" /\ CLLDelAt)
    \/ (cll.pc = "idle" /\ CLLSizeCall)
    \/ CLLSizeStep
    \/ CLLSizeReturn

\* a function that was called keeps running until it returns
SpecCLL ==
    Init /\ [][NextCLL]_vars /\ WF_vars(CLLSizeStep) /\ WF_vars(CLLSizeReturn)

\* ---- the doubly linked list ----
DLLCreate ==
    /\ dll.p_list = NULL
    /\ \E ok \in BOOLEAN :
          /\ dll' = doubly_linked_list_create(TRUE, TRUE, TRUE, ok)
          /\ last' = ListCall("doubly_linked_list_create", 0, NULL,
                              doubly_linked_list_create(TRUE, TRUE, TRUE,
                                                        ok).p_list,
                              <<>>, ok, dll)
    /\ UNCHANGED <<p_array, pp_array, len, cap, heap, owned, badfree, val,
                   p_clone, clone, ll, cll, matrix>>

DLLDestroy ==
    /\ dll.p_list # NULL
    /\ LET r == doubly_linked_list_destroy(dll)
       IN  /\ dll' = r.l
           /\ heap' = HeapAfter(heap, r.del)
           /\ val' = Mem(HeapAfter(heap, r.del))
           /\ badfree' = (badfree \/ BadFree(heap, r.del))
           /\ last' = ListCall("doubly_linked_list_destroy", 0, NULL, NULL,
                               r.del, TRUE, dll)
    /\ UNCHANGED <<p_array, pp_array, len, cap, owned, p_clone, clone, ll,
                   cll, matrix>>

\* doubly_linked_list_insert and, for index 0, doubly_linked_list_preappend:
\* the caller no longer holds the element once it is in the list or was
\* deleted
DLLInsert ==
    \E index \in RingIndices(Len(LLData(dll))), p_data \in Values,
       ok \in BOOLEAN :
        LET r == IF index = 0
                 THEN doubly_linked_list_preappend(dll, p_data, ok)
                 ELSE doubly_linked_list_insert(dll, p_data, index, ok)
        IN  /\ dll' = r.l
            /\ heap' = HeapAfter(heap, r.del)
            /\ val' = Mem(HeapAfter(heap, r.del))
            /\ badfree' = (badfree \/ BadFree(heap, r.del))
            /\ owned' = IF r.l # dll \/ r.del # <<>>
                        THEN owned \ {p_data} ELSE owned
            /\ last' = ListCall("doubly_linked_list_insert", index, p_data,
                                r.l.p_list, r.del, ok, dll)
            /\ UNCHANGED <<p_array, pp_array, len, cap, p_clone, clone, ll,
                           cll, matrix>>

DLLDelAt ==
    \E index \in RingIndices(Len(LLData(dll))) :
        LET r == doubly_linked_list_del_at(dll, index)
        IN  /\ dll' = r.l
            /\ heap' = HeapAfter(heap, r.del)
            /\ val' = Mem(HeapAfter(heap, r.del))
            /\ badfree' = (badfree \/ BadFree(heap, r.del))
            /\ last' = ListCall("doubly_linked_list_del_at", index, NULL,
                                r.l.p_list, r.del, TRUE, dll)
            /\ UNCHANGED <<p_array, pp_array, len, cap, owned, p_clone, clone,
                           ll, cll, matrix>>

DLLReverse ==
    /\ dll' = doubly_linked_list_reverse(dll)
    /\ last' = ListCall("doubly_linked_list_reverse", 0, NULL,
                        dll.p_list, <<>>, TRUE, dll)
    /\ UNCHANGED <<p_array, pp_array, len, cap, heap, owned, badfree, val,
                   p_clone, clone, ll, cll, matrix>>

\* The doubly linked list of up to three elements under inserts and
\* deletions at every index and reversals.
NextDLL ==
    \/ (owned = {} /\ CallerMalloc(DLLHeap, OneContent))
    \/ CallerFree
    \/ DLLCreate
    \/ (owned = {} /\ DLLDestroy)
    \/ DLLInsert
    \/ DLLDelAt
    \/ DLLReverse

SpecDLL == Init /\ [][NextDLL]_vars

\* ---- the matrix ----
MatrixCreate ==
    /\ matrix.p_matrix = NULL
    /\ \E rows \in 0..MaxDim, cols \in 0..MaxDim, ok0 \in BOOLEAN,
          made \in 0..MaxDim :
          /\ made <= rows
          /\ matrix' = matrix_create(rows, cols, TRUE, TRUE, TRUE, TRUE, ok0,
                                     made)
          /\ last' = ListCall("matrix_create", <<rows, cols>>, NULL,
                              matrix_create(rows, cols, TRUE, TRUE, TRUE, TRUE,
                                            ok0, made).p_matrix,
                              <<>>, ok0 /\ made = rows, matrix)
    /\ UNCHANGED <<p_array, pp_array, len, cap, heap, owned, badfree, val,
                   p_clone, clone, ll, cll, dll>>

MatrixDestroy ==
    /\ matrix.p_matrix # NULL
    /\ LET r == matrix_destroy(matrix)
       IN  /\ matrix' = r.m
           /\ heap' = HeapAfter(heap, r.del)
           /\ val' = Mem(HeapAfter(heap, r.del))
           /\ badfree' = (badfree \/ BadFree(heap, r.del))
           /\ last' = ListCall("matrix_destroy", <<0, 0>>, NULL, NULL, r.del,
                               TRUE, matrix)
    /\ UNCHANGED <<p_array, pp_array, len, cap, owned, p_clone, clone, ll,
                   cll, dll>>

\* matrix_set on any cell up to one past the last row and column: the caller
\* no longer holds the element once it is stored or was deleted
MatrixSet ==
    \E row \in 0..matrix.rows, col \in 0..matrix.cols, p_value \in Values :
        LET r == matrix_set(matrix, row, col, p_value)
        IN  /\ matrix' = r.m
            /\ heap' = HeapAfter(heap, r.del)
            /\ val' = Mem(HeapAfter(heap, r.del))
            /\ badfree' = (badfree \/ BadFree(heap, r.del))
            /\ owned' = IF r.ret = MATRIX_SUCCESS \/ p_value \in Range(r.del)
                        THEN owned \ {p_value} ELSE owned
            /\ last' = ListCall("matrix_set", <<row, col>>, p_value, r.ret,
                                r.del, TRUE, matrix)
            /\ UNCHANGED <<p_array, pp_array, len, cap, p_clone, clone, ll,
                           cll, dll>>

MatrixGet ==
    \E row \in 0..matrix.rows, col \in 0..matrix.cols, has_out \in BOOLEAN :
        LET r == matrix_get(matrix, row, col, has_out)
        IN  /\ last' = [ListCall("matrix_get", <<row, col>>, NULL, r.ret,
                                 <<>>, TRUE, matrix)
                            EXCEPT !.out = r.out, !.has_out = has_out]
            /\ UNCHANGED <<p_array, pp_array, len, cap, heap, owned, badfree,
                           val, p_clone, clone, ll, cll, dll, matrix>>

\* Matrices of up to MaxDim rows and columns written cell by cell in every
\* order.
NextMatrix ==
    \/ (owned = {} /\ CallerMalloc(MatrixHeap, OneContent))
    \/ CallerFree
    \/ MatrixCreate
    \/ (owned = {} /\ MatrixDestroy)
    \/ MatrixSet
    \/ MatrixGet

SpecMatrix == Init /\ [][NextMatrix]_vars

\* The fill workload: arrays of capacity 1 and 3 built by pushes of elements
\* of two contents are filled with copies of a value the caller holds, any
\* number of the copies succeeding.
NextFill ==
    \/ (owned = {} /\ CallerMalloc(FillHeap, CloneContents))
    \/ CallerFree
    \/ Create(CloneCaps)
    \/ (owned = {} /\ Destroy)
    \/ (~Grows /\ Push)
    \/ Fill(FillHeap, 0..cap)

SpecFill == Init /\ [][NextFill]_vars

\* ---- the claims ----

\* the last call was one of the mutators of C1 on a live array
Mutated ==
    /\ last.pre_p # NULL
    /\ last.op \in {"insert", "push", "set", "remove", "pop", "clear", "fill"}

\* an insert-like call with a live array and a non-null element
ValidInsertArgs == last.pre_p # NULL /\ last.value # NULL

\* the array_t is exactly as before the call
ArrayUnchanged == p_array = last.pre_p /\ Arr = last.pre

\* C1: after every insert / push / set / remove / pop / clear / fill on a
\* created array, 0 <= len <= cap.
C1_LenWithinCap == p_array # NULL => (0 <= len /\ len <= cap)

\* C1 witness: a removal has just shrunk the buffer, the call that lowers
\* cap toward len.
C1_Witness ==
    /\ Mutated
    /\ last.op = "remove"
    /\ last.ret = ARRAY_SUCCESS
    /\ cap < last.pre.cap

\* C2: in every reachable state of a live array cap <= ARRAY_MAX_SIZE, also
\* directly after array_create.
C2_CapWithinMax == p_array # NULL => cap <= ARRAY_MAX_SIZE

\* C3: every slot below len holds a non-null handle and every slot in
\* [len, cap) is null.
C3_SlotsPartition ==
    p_array # NULL =>
        /\ Len(pp_array) = cap
        /\ \A i \in 1..cap : (pp_array[i] # NULL) <=> (i <= len)

\* C3 witness: a removal from the middle of an array of three or more.
C3_Witness ==
    /\ Mutated
    /\ last.op = "remove"
    /\ last.ret = ARRAY_SUCCESS
    /\ last.index < last.pre.len - 1
    /\ len >= 2

\* C4 as claimed: array_insert with index > len fails out-of-bounds, leaves
\* the array unchanged and calls del_f exactly once on the rejected element.
C4_Original ==
    (last.op = "insert" /\ ValidInsertArgs /\ last.index > last.pre.len) =>
        /\ last.ret = ARRAY_OUT_OF_BOUNDS
        /\ ArrayUnchanged
        /\ last.del = <<last.value>>

\* C4 amended: array_insert with index > len fails out-of-bounds, leaves the
\* array unchanged and does not call del_f: the rejected element stays live
\* and in the caller's hands.
C4_InsertOutOfBounds ==
    (last.op = "insert" /\ ValidInsertArgs /\ last.index > last.pre.len) =>
        /\ last.ret = ARRAY_OUT_OF_BOUNDS
        /\ ArrayUnchanged
        /\ last.del = <<>>
        /\ heap = last.pre_heap
        /\ last.value \in heap \cap owned

\* C4 witness: an insert one past the valid range on a non-empty array.
C4_Witness ==
    /\ last.op = "insert"
    /\ ValidInsertArgs
    /\ last.index > last.pre.len
    /\ last.pre.len > 0

\* C5 as claimed: array_set with index > len fails out-of-bounds, leaves the
\* array unchanged and deletes the rejected element.
C5_Original ==
    (last.op = "set" /\ ValidInsertArgs /\ last.index > last.pre.len) =>
        /\ last.ret = ARRAY_OUT_OF_BOUNDS
        /\ ArrayUnchanged
        /\ last.del = <<last.value>>

\* C5 amended: array_set with index > len fails out-of-bounds, leaves the
\* array unchanged and does not call del_f: the rejected element stays live
\* and in the caller's hands.
C5_SetOutOfBounds ==
    (last.op = "set" /\ ValidInsertArgs /\ last.index > last.pre.len) =>
        /\ last.ret = ARRAY_OUT_OF_BOUNDS
        /\ ArrayUnchanged
        /\ last.del = <<>>
        /\ heap = last.pre_heap
        /\ last.value \in heap \cap owned

\* C5 witness: a set one past the valid range on a non-empty array.
C5_Witness ==
    /\ last.op = "set"
    /\ ValidInsertArgs
    /\ last.index > last.pre.len
    /\ last.pre.len > 0

\* C6: whenever array_insert, array_push or array_set returns a non-success
\* code, the element is in no slot, del_f was not called, and the element is
\* still the caller's.
C6_FailureKeepsOwnership ==
    (last.op \in {"insert", "push", "set"} /\ last.ret # ARRAY_SUCCESS) =>
        /\ last.del = <<>>
        /\ heap = last.pre_heap
        /\ last.value # NULL =>
              /\ last.value \notin Range(pp_array)
              /\ last.value \in heap \cap owned

\* C6 witness: a push whose growth failed in realloc.
C6_Witness ==
    /\ last.op = "push"
    /\ ValidInsertArgs
    /\ last.ret = ARRAY_ALLOCATION_FAILURE

\* the sequence s with x put in front of position i (counted from 0)
InsertedAt(s, i, x) == SubSeq(s, 1, i) \o <<x>> \o SubSeq(s, i + 1, Len(s))

\* the sequence s without position i (counted from 0)
RemovedAt(s, i) == SubSeq(s, 1, i) \o SubSeq(s, i + 2, Len(s))

\* C7: a successful array_insert(a, i, x) on contents s of length n yields
\* s[0..i) ++ [x] ++ s[i..n) with length n + 1, and deletes nothing.
C7_InsertContents ==
    (last.op = "insert" /\ last.ret = ARRAY_SUCCESS) =>
        /\ last.index <= last.pre.len
        /\ len = last.pre.len + 1
        /\ Contents(Arr) = InsertedAt(Contents(last.pre), last.index, last.value)
        /\ last.del = <<>>
        /\ heap = last.pre_heap

\* C7 witness: an insert strictly inside an array of two or more elements.
C7_Witness ==
    /\ last.op = "insert"
    /\ last.ret = ARRAY_SUCCESS
    /\ 0 < last.index
    /\ last.index < last.pre.len

\* an insert or push with valid arguments on a full array whose doubled
\* capacity does not exceed ARRAY_MAX_SIZE
GrowthDue ==
    /\ last.op \in {"insert", "push"}
    /\ ValidInsertArgs
    /\ last.index <= last.pre.len
    /\ last.pre.len = last.pre.cap
    /\ ARRAY_RESIZE_FACTOR * last.pre.cap <= ARRAY_MAX_SIZE

\* C8 as claimed: an insert or push on a full array whose doubled capacity
\* does not exceed the maximum succeeds with capacity exactly doubled.
C8_Original ==
    GrowthDue =>
        /\ last.ret = ARRAY_SUCCESS
        /\ cap = ARRAY_RESIZE_FACTOR * last.pre.cap

\* C8 amended: such an insert or push succeeds with capacity exactly doubled
\* and the element stored provided realloc succeeds; when realloc fails it
\* returns ARRAY_ALLOCATION_FAILURE and the capacity stays.
C8_GrowthDoubles ==
    GrowthDue =>
        IF last.ok
        THEN /\ last.ret = ARRAY_SUCCESS
             /\ cap = ARRAY_RESIZE_FACTOR * last.pre.cap
             /\ len = last.pre.len + 1
             /\ Contents(Arr)
                    = InsertedAt(Contents(last.pre), last.index, last.value)
        ELSE /\ last.ret = ARRAY_ALLOCATION_FAILURE
             /\ cap = last.pre.cap

\* C8 witness: an insert inside a full array of capacity ARRAY_MAX_SIZE / 2
\* that grew it to ARRAY_MAX_SIZE.
C8_Witness ==
    /\ GrowthDue
    /\ last.op = "insert"
    /\ last.ok
    /\ 0 < last.index /\ last.index < last.pre.len
    /\ cap = ARRAY_MAX_SIZE

\* an insert with valid arguments on a full array whose growth fails
GrowthFails ==
    /\ last.op = "insert"
    /\ ValidInsertArgs
    /\ last.index <= last.pre.len
    /\ last.pre.len = last.pre.cap
    /\ (ARRAY_RESIZE_FACTOR * last.pre.cap > ARRAY_MAX_SIZE \/ ~last.ok)

\* C9: when growth fails during array_insert on a full array, the insert
\* returns a failure code and length, capacity and slots are as before.
C9_FailedGrowthAborts ==
    GrowthFails => (last.ret # ARRAY_SUCCESS /\ ArrayUnchanged)

\* C9 witness: an insert on a full array within the maximum whose doubled
\* capacity would exceed it.
C9_Witness ==
    /\ GrowthFails
    /\ last.pre.cap <= ARRAY_MAX_SIZE
    /\ ARRAY_RESIZE_FACTOR * last.pre.cap > ARRAY_MAX_SIZE
    /\ last.ret = ARRAY_OUT_OF_BOUNDS

\* C10: a successful array_remove(a, i) on contents s of length n calls
\* del_f exactly once, on s[i], and leaves s[0..i) ++ s[i+1..n) with length
\* n - 1 and slot n - 1 null.
C10_RemoveContents ==
    (last.op = "remove" /\ last.ret = ARRAY_SUCCESS) =>
        /\ last.index < last.pre.len
        /\ last.del = <<Contents(last.pre)[last.index + 1]>>
        /\ heap = last.pre_heap \ {Contents(last.pre)[last.index + 1]}
        /\ len = last.pre.len - 1
        /\ Contents(Arr) = RemovedAt(Contents(last.pre), last.index)
        /\ cap >= last.pre.len
        /\ pp_array[last.pre.len] = NULL

\* C10 witness: a removal before the last element of an array of three.
C10_Witness ==
    /\ last.op = "remove"
    /\ last.ret = ARRAY_SUCCESS
    /\ last.index < last.pre.len - 1
    /\ last.pre.len >= 3

\* C11: array_remove with index >= len (index = len and any index on an
\* empty array included) returns out-of-bounds, leaves len, cap and every
\* slot unchanged and makes no call of del_f.
C11_RemoveOutOfBounds ==
    (last.op = "remove" /\ last.pre_p # NULL /\ last.index >= last.pre.len) =>
        /\ last.ret = ARRAY_OUT_OF_BOUNDS
        /\ ArrayUnchanged
        /\ last.del = <<>>
        /\ heap = last.pre_heap

\* C11 witness: a remove at index = len of an array that holds elements.
C11_Witness ==
    /\ last.op = "remove"
    /\ last.pre_p # NULL
    /\ last.index = last.pre.len
    /\ last.pre.len >= 2

\* C12: array_pop (given a p_out) on a non-empty array hands the caller the
\* handle of slot len - 1 without a call of del_f, decrements len by one and
\* leaves the other elements in place; on an empty array it fails
\* out-of-bounds and changes nothing.
C12_PopHandsOver ==
    (last.op = "pop" /\ last.pre_p # NULL /\ last.has_out) =>
        IF last.pre.len > 0
        THEN /\ last.out = last.pre.pp_array[last.pre.len]
             /\ last.out # NULL
             /\ last.out \in heap \cap owned
             /\ last.del = <<>>
             /\ heap = last.pre_heap
             /\ len = last.pre.len - 1
             /\ Contents(Arr) = SubSeq(last.pre.pp_array, 1, last.pre.len - 1)
        ELSE /\ last.ret = ARRAY_OUT_OF_BOUNDS
             /\ last.out = NULL
             /\ ArrayUnchanged
             /\ last.del = <<>>
             /\ heap = last.pre_heap
             /\ owned = last.pre_owned

\* C12 witness: a pop from an array of three or more elements.
C12_Witness ==
    /\ last.op = "pop"
    /\ last.has_out
    /\ last.pre.len >= 3
    /\ last.out # NULL
    /\ len = last.pre.len - 1

\* C13: after a successful array_push(a, x), array_get(a, len - 1) returns
\* the very handle x; array_get changes neither len, cap nor the contents
\* (nor the heap, nor what the caller owns).
C13_GetAfterPush ==
    last.op = "get" =>
        /\ ArrayUnchanged
        /\ heap = last.pre_heap
        /\ owned = last.pre_owned
        /\ (last.value # NULL /\ last.has_out /\ last.index = last.pre.len - 1) =>
               (last.ret = ARRAY_SUCCESS /\ last.out = last.value)

\* C13 witness: a get of the last slot right after a push onto an array that
\* already held two elements.
C13_Witness ==
    /\ last.op = "get"
    /\ last.value # NULL
    /\ last.has_out
    /\ last.index = last.pre.len - 1
    /\ last.pre.len >= 3

\* C14: array_set(a, i, x) with i = len behaves as array_insert at the tail:
\* x is appended and len becomes len + 1, after the capacity was doubled if
\* the array was full (and, as for array_insert, nothing changes if that
\* growth fails).  With i < len it calls del_f exactly once, on the previous
\* occupant of slot i, stores x there and leaves len, cap and every other
\* slot unchanged.
C14_SetStores ==
    (last.op = "set" /\ ValidInsertArgs /\ last.index <= last.pre.len) =>
        IF last.index = last.pre.len
        THEN /\ last.del = <<>>
             /\ heap = last.pre_heap
             /\ IF last.pre.len < last.pre.cap
                    \/ (last.ok /\ ARRAY_RESIZE_FACTOR * last.pre.cap
                                       <= ARRAY_MAX_SIZE)
                THEN /\ last.ret = ARRAY_SUCCESS
                     /\ len = last.pre.len + 1
                     /\ Contents(Arr) = Contents(last.pre) \o <<last.value>>
                     /\ cap = IF last.pre.len = last.pre.cap
                              THEN ARRAY_RESIZE_FACTOR * last.pre.cap
                              ELSE last.pre.cap
                ELSE /\ last.ret # ARRAY_SUCCESS
                     /\ ArrayUnchanged
        ELSE /\ last.ret = ARRAY_SUCCESS
             /\ last.del = <<last.pre.pp_array[last.index + 1]>>
             /\ heap = last.pre_heap \ {last.pre.pp_array[last.index + 1]}
             /\ ~badfree
             /\ pp_array = [last.pre.pp_array EXCEPT ![last.index + 1] = last.value]
             /\ len = last.pre.len
             /\ cap = last.pre.cap

\* C14 witness: a set that replaces an element strictly inside an array of
\* three elements.
C14_Witness ==
    /\ last.op = "set"
    /\ ValidInsertArgs
    /\ last.index = 1
    /\ last.pre.len = 3
    /\ last.ret = ARRAY_SUCCESS
    /\ Len(last.del) = 1

\* C15: capacity hysteresis.  While pushes fill an array up and pops and
\* removals empty it again, no call lowers the capacity unless it leaves
\* len < cap / ARRAY_SHRINK_THRESHOLD_DIVISOR (cap as before the call), and
\* no lowered capacity is below ARRAY_MIN_CAPACITY.
C15_Hysteresis ==
    (p_array # NULL /\ last.pre_p # NULL /\ cap < last.pre.cap) =>
        /\ len < last.pre.cap \div ARRAY_SHRINK_THRESHOLD_DIVISOR
        /\ cap >= ARRAY_MIN_CAPACITY

\* C15 witness: pushes had grown the buffer to 64 slots or more and a pop
\* has now lowered the capacity.
C15_Witness ==
    /\ last.op = "pop"
    /\ last.pre.cap >= 64
    /\ cap < last.pre.cap
    /\ len > 0

\* the larger of two numbers
Max(a, b) == IF a < b THEN b ELSE a

\* C16: shrink policy.  After a successful array_remove or array_pop with
\* capacity c before the call and length n after it, the realloc (if one
\* was made) succeeding, the capacity is max(c / 2, 16) if n < c / 6 and
\* c > 16, and c in every other case.
C16_ShrinkPolicy ==
    (/\ last.op \in {"remove", "pop"}
     /\ last.pre_p # NULL
     /\ last.ret = ARRAY_SUCCESS
     /\ last.ok) =>
        cap = IF len < last.pre.cap \div ARRAY_SHRINK_THRESHOLD_DIVISOR
                 /\ last.pre.cap > ARRAY_MIN_CAPACITY
              THEN Max(last.pre.cap \div ARRAY_SHRINK_FACTOR, ARRAY_MIN_CAPACITY)
              ELSE last.pre.cap

\* C16 witness: a remove takes a buffer of 34 slots, doubled from 17 by
\* pushes, back to 17.
C16_Witness ==
    /\ last.op = "remove"
    /\ last.ret = ARRAY_SUCCESS
    /\ last.ok
    /\ last.pre.cap = 34
    /\ cap = 17

\* a remove at index 1 of the array of the scenarios once it has grown from
\* capacity 4 to capacity 8 and holds two to five elements
ScenarioRemove ==
    /\ last.op = "remove"
    /\ last.pre_p # NULL
    /\ last.index = 1
    /\ last.pre.cap = 8
    /\ last.pre.len \in 2..5

\* C17 as claimed: from the array created with capacity 4 that holds five
\* elements at capacity 8, four array_remove calls at index 1 leave length 1
\* and a final capacity of at least 16.
C17_Original ==
    (ScenarioRemove /\ last.pre.len = 2) =>
        (len = 1 /\ cap >= ARRAY_MIN_CAPACITY)

\* C17 amended: each of these removes succeeds, takes the element at index 1
\* out and leaves the capacity at 8, so that four of them take the length
\* from 5 to 1 with a final capacity of 8.
C17_ScenarioCapacity ==
    ScenarioRemove =>
        /\ last.ret = ARRAY_SUCCESS
        /\ len = last.pre.len - 1
        /\ Contents(Arr) = RemovedAt(Contents(last.pre), 1)
        /\ cap = 8

\* C17 witness: the end of the scenario.  The elements were allocated in
\* order (handles 1 to 4 pushed, handle 5 inserted at index 2) and the
\* fourth remove has just deleted handle 4, leaving handle 1 alone.
C17_Witness ==
    /\ ScenarioRemove
    /\ Contents(last.pre) = <<1, 4>>
    /\ last.del = <<4>>
    /\ Contents(Arr) = <<1>>
    /\ heap = {1}
    /\ cap = 8

\* C18: if the realloc of the shrink step fails during array_remove, the
\* remove still returns success, the element at index is deleted and taken
\* out (len decremented) and the capacity is as before.
C18_ShrinkFailureIgnored ==
    (/\ last.op = "remove"
     /\ last.pre_p # NULL
     /\ last.index < last.pre.len
     /\ last.pre.cap > ARRAY_MIN_CAPACITY
     /\ last.pre.len - 1 < last.pre.cap \div ARRAY_SHRINK_THRESHOLD_DIVISOR
     /\ ~last.ok) =>
        /\ last.ret = ARRAY_SUCCESS
        /\ last.del = <<last.pre.pp_array[last.index + 1]>>
        /\ heap = last.pre_heap \ {last.pre.pp_array[last.index + 1]}
        /\ len = last.pre.len - 1
        /\ Contents(Arr) = RemovedAt(Contents(last.pre), last.index)
        /\ cap = last.pre.cap

\* C18 witness: the first of two elements is removed from a buffer of 17
\* slots and the realloc to 16 slots fails.
C18_Witness ==
    /\ last.op = "remove"
    /\ last.index = 0
    /\ last.pre.len = 2
    /\ last.pre.cap > ARRAY_MIN_CAPACITY
    /\ ~last.ok
    /\ len = 1

\* C19: for every live array a of any length, the callocs and every copy
\* succeeding, array_clone(a) returns a new array c of the same length with
\* array_is_equal(a, c) true (slot by slot the same content) and no element
\* handle in common with a; a is unchanged and its elements are live.
C19_CloneDeepCopy ==
    (/\ last.op = "clone"
     /\ last.pre_p # NULL
     /\ last.ok
     /\ last.index = last.pre.len) =>
        /\ p_clone # NULL
        /\ p_clone # p_array
        /\ clone.len = len
        /\ array_is_equal(p_array, Arr, p_clone, clone, val)
        /\ \A i \in 1..len : val[clone.pp_array[i]] = val[pp_array[i]]
        /\ Range(Contents(clone)) \cap Range(Contents(Arr)) = {}
        /\ Range(Contents(clone)) \cap last.pre_heap = {}
        /\ ArrayUnchanged
        /\ last.del = <<>>
        /\ Range(Contents(Arr)) \subseteq heap

\* C19 witness: a clone of an array of three elements, the first two of
\* differing content.
C19_Witness ==
    /\ last.op = "clone"
    /\ last.ok
    /\ p_clone # NULL
    /\ len = 3
    /\ clone.len = 3
    /\ val[pp_array[1]] # val[pp_array[2]]

\* C20: array_clone is all-or-nothing.  If cpy_f fails after k copies were
\* made, each of the k copies is handed to del_f exactly once, no array is
\* returned, nothing the call allocated stays live, and the source's len,
\* cap and contents are as before.
C20_CloneAllOrNothing ==
    (/\ last.op = "clone"
     /\ last.pre_p # NULL
     /\ last.ok
     /\ last.index < last.pre.len) =>
        /\ p_clone = NULL
        /\ clone = NoArr
        /\ Len(last.del) = last.index
        /\ Cardinality(Range(last.del)) = Len(last.del)
        /\ Range(last.del) \cap last.pre_heap = {}
        /\ heap = last.pre_heap
        /\ ~badfree
        /\ ArrayUnchanged

\* C20 witness: the third copy of a clone of three elements failed after
\* two copies were made.
C20_Witness ==
    /\ last.op = "clone"
    /\ last.pre_p # NULL
    /\ last.ok
    /\ last.pre.len = 3
    /\ last.index = 2
    /\ Len(last.del) = 2

\* C21: array_is_equal(a, b) returns true if and only if both are null, or
\* both are non-null with equal length and compare(a[i], b[i]) = 0 for
\* every i < length; the capacities play no part.
C21_IsEqualIff ==
    last.op = "is_equal" =>
        LET a == ArrOf(last.index)
            b == ArrOf(last.value)
        IN  (last.ret = 1) <=>
                \/ (last.index = NULL /\ last.value = NULL)
                \/ /\ last.index # NULL
                   /\ last.value # NULL
                   /\ a.len = b.len
                   /\ \A i \in 1..a.len :
                          val[a.pp_array[i]] = val[b.pp_array[i]]

\* C21 witness: the array and its clone hold two elements each, compare
\* equal and differ in capacity.
C21_Witness ==
    /\ last.op = "is_equal"
    /\ last.index = p_array
    /\ last.value = p_clone
    /\ p_array # NULL
    /\ p_clone # NULL
    /\ last.ret = 1
    /\ len = 2
    /\ cap # clone.cap

\* C22: array_find(a, key) returns success with the lowest index i < len
\* such that compare(key, a[i]) = 0 whenever there is one, and not-found
\* otherwise (for an empty array in particular); it never modifies the
\* array.
C22_FindLowest ==
    last.op = "find" =>
        /\ ArrayUnchanged
        /\ heap = last.pre_heap
        /\ owned = last.pre_owned
        /\ (last.pre_p # NULL /\ last.value # NULL /\ last.has_out) =>
               LET hits == {i \in 0..(len - 1) :
                               val[last.value] = val[pp_array[i + 1]]}
               IN  IF hits = {}
                   THEN last.ret = ARRAY_NOT_FOUND
                   ELSE /\ last.ret = ARRAY_SUCCESS
                        /\ last.out \in hits
                        /\ \A j \in hits : last.out <= j

\* C22 witness: the key matches the second and the third of three elements
\* and not the first.
C22_Witness ==
    /\ last.op = "find"
    /\ last.value # NULL
    /\ last.has_out
    /\ len = 3
    /\ val[pp_array[1]] # val[last.value]
    /\ val[pp_array[2]] = val[last.value]
    /\ val[pp_array[3]] = val[last.value]
    /\ last.out = 1

\* the contents of the live elements of the array, slot by slot
Ints == [i \in 1..len |-> val[pp_array[i]]]

\* the live elements are in the order of compare
Ordered == \A i \in 1..(len - 1) : val[pp_array[i]] <= val[pp_array[i + 1]]

\* C23: after Sort(a), compare(a[i], a[i+1]) <= 0 for every adjacent pair
\* of live elements, and the array holds the same element handles as
\* before (as many, in the same buffer, none deleted).
C23_SortOrders ==
    (last.op = "sort" /\ last.pre_p # NULL) =>
        /\ last.ret = ARRAY_SUCCESS
        /\ Ordered
        /\ len = last.pre.len
        /\ cap = last.pre.cap
        /\ Range(Contents(Arr)) = Range(Contents(last.pre))
        /\ \A i \in (len + 1)..cap : pp_array[i] = NULL
        /\ heap = last.pre_heap

\* C23 witness: the array [5,2,8,1] of the scenario has been sorted into
\* [1,2,5,8].
C23_Witness ==
    /\ last.op = "sort"
    /\ last.pre.len = 4
    /\ [i \in 1..4 |-> val[last.pre.pp_array[i]]] = <<5, 2, 8, 1>>
    /\ Ints = <<1, 2, 5, 8>>

\* C24: on an array ordered by compare, SortedSearch(a, k) returns an index
\* i with compare(a[i], k) = 0 whenever there is one and not-found
\* otherwise: on [1,2,5,8] it finds 8 at 3 and does not find 99.
C24_SortedSearchFinds ==
    (/\ last.op = "sorted_search"
     /\ last.pre_p # NULL
     /\ last.value # NULL
     /\ last.has_out
     /\ Ordered) =>
        /\ IF \E i \in 1..len : val[pp_array[i]] = val[last.value]
           THEN /\ last.ret = ARRAY_SUCCESS
                /\ last.out \in 0..(len - 1)
                /\ val[pp_array[last.out + 1]] = val[last.value]
           ELSE last.ret = ARRAY_NOT_FOUND
        /\ (Ints = <<1, 2, 5, 8>> /\ val[last.value] = 8) => last.out = 3
        /\ (Ints = <<1, 2, 5, 8>> /\ val[last.value] = 99) =>
               last.ret = ARRAY_NOT_FOUND
        /\ ArrayUnchanged

\* C24 witness: the search of 8 in [1,2,5,8] has returned 3.
C24_Witness ==
    /\ last.op = "sorted_search"
    /\ last.has_out
    /\ last.value # NULL
    /\ Ints = <<1, 2, 5, 8>>
    /\ val[last.value] = 8
    /\ last.ret = ARRAY_SUCCESS
    /\ last.out = 3

\* C25: array_create returns no array when initial_capacity is 0 or any of
\* the four capability functions is null; otherwise, both allocations
\* succeeding, it returns an array of length 0 whose capacity is exactly
\* initial_capacity.
C25_CreateContract ==
    last.op = "create" =>
        IF last.index = 0 \/ \E i \in 1..4 : ~last.fns[i]
        THEN p_array = NULL
        ELSE last.ok =>
                /\ p_array # NULL
                /\ len = 0
                /\ cap = last.index
                /\ pp_array = Nulls(last.index)

C25_Witness ==
    /\ last.op = "create"
    /\ last.ok
    /\ last.fns = <<TRUE, TRUE, TRUE, TRUE>>
    /\ p_array # NULL
    /\ cap = 3

\* C26: array_clear invokes delete exactly once on each of the len live
\* elements, sets the length to 0 and every slot to null, and leaves the
\* capacity unchanged.
C26_ClearContract ==
    (last.op = "clear" /\ last.pre_p # NULL) =>
        /\ Len(last.del) = last.pre.len
        /\ \A i \in 1..last.pre.len :
              Cardinality({k \in DOMAIN last.del :
                              last.del[k] = last.pre.pp_array[i]}) = 1
        /\ Range(last.del) \cap heap = {}
        /\ len = 0
        /\ pp_array = Nulls(last.pre.cap)
        /\ cap = last.pre.cap

C26_Witness ==
    /\ last.op = "clear"
    /\ last.pre.len = 3
    /\ last.pre.cap = 17
    /\ len = 0

\* every position of s holds a different handle
Distinct(s) == \A i, j \in DOMAIN s : s[i] = s[j] => i = j

\* C27: single ownership.  At every point each allocated handle is owned by
\* exactly one party (the array, a clone or the caller); delete is invoked at
\* most once per handle and never on a handle the array does not own; and
\* array_destroy deletes every handle the array holds exactly once.
C27_SingleOwnership ==
    /\ ~badfree
    /\ Distinct(Contents(Arr) \o Contents(clone))
    /\ NULL \notin Range(Contents(Arr))
    /\ Range(Contents(Arr) \o Contents(clone)) \cap owned = {}
    /\ Range(Contents(Arr) \o Contents(clone)) \cup owned = heap
    /\ Distinct(last.del)
    /\ Range(last.del) \cap last.pre_owned = {}
    /\ Range(last.del) \cap heap = {}
    /\ last.op = "destroy" =>
          /\ Len(last.del) = last.pre.len
          /\ Range(last.del) = Range(Contents(last.pre))

C27_Witness ==
    /\ last.op = "destroy"
    /\ Len(last.del) = 3
    /\ owned # {}
    /\ heap = owned

\* C28: a successful array_fill(a, v) replaces the contents with cap
\* independent copies of v (each equal to v under compare, none identical to
\* v or to another copy), deletes every previous element exactly once and
\* makes len = cap; when the temporary or any copy cannot be allocated, the
\* previous contents and length are unchanged and every copy made so far has
\* been deleted.
C28_FillAllOrNothing ==
    (last.op = "fill" /\ last.pre_p # NULL /\ last.value # NULL) =>
        IF last.ret = ARRAY_SUCCESS
        THEN /\ len = last.pre.cap
             /\ cap = last.pre.cap
             /\ Distinct(pp_array)
             /\ \A i \in 1..cap :
                   /\ pp_array[i] \in heap \ last.pre_heap
                   /\ pp_array[i] # last.value
                   /\ compare_ints(val, pp_array[i], last.value) = 0
             /\ Distinct(last.del)
             /\ Range(last.del) = Range(Contents(last.pre))
             /\ Len(last.del) = last.pre.len
        ELSE /\ last.ret = ARRAY_ALLOCATION_FAILURE
             /\ Arr = last.pre
             /\ heap = last.pre_heap
             /\ Len(last.del) = last.index

C28_Witness ==
    /\ last.op = "fill"
    /\ last.ret = ARRAY_SUCCESS
    /\ last.pre.len = 2
    /\ cap = 3
    /\ val[last.value] = 20
    /\ \A i \in 1..3 : val[pp_array[i]] = 20

\* C29: the stack is LIFO.  A successful stack_push puts the handle on top;
\* stack_pop on a stack that holds elements hands over the most recently
\* pushed handle still held and leaves the others in place, so successive
\* pops return the pushed handles in reverse order, and stack_size is one
\* less after each pop; stack_pop on an empty stack returns
\* STACK_OUT_OF_BOUNDS and changes nothing.
C29_StackLIFO ==
    /\ (last.op = "stack_push" /\ last.ret = STACK_SUCCESS) =>
          Contents(Arr) = Append(Contents(last.pre), last.value)
    /\ (last.op = "stack_pop" /\ last.pre_p # NULL /\ last.has_out) =>
          IF last.pre.len = 0
          THEN /\ last.ret = STACK_OUT_OF_BOUNDS
               /\ Arr = last.pre
               /\ last.out = NULL
               /\ owned = last.pre_owned
          ELSE /\ last.out = last.pre.pp_array[last.pre.len]
               /\ last.out \in owned
               /\ Contents(Arr) = SubSeq(Contents(last.pre), 1, last.pre.len - 1)
               /\ stack_size(p_stack, p_array, Arr, TRUE).size
                     = stack_size(last.pre_p, last.pre_p, last.pre, TRUE).size - 1
    /\ (last.op = "stack_size" /\ last.ret = STACK_SUCCESS) => last.out = len

C29_Witness ==
    /\ last.op = "stack_pop"
    /\ last.pre.len = 3
    /\ last.out = last.pre.pp_array[3]
    /\ len = 2

\* C30: whenever array_pop returns a code other than success, the length and
\* the contents of the array are unchanged and no element has been handed
\* to the caller; conversely, whenever array_pop removes the tail element it
\* returns success.  (The code returns the result of the shrink step after
\* the removal, so this is violated when the realloc of the shrink fails.)
C30_PopFailureChangesNothing ==
    last.op = "pop" =>
        /\ last.ret # ARRAY_SUCCESS =>
              /\ len = last.pre.len
              /\ Contents(Arr) = Contents(last.pre)
              /\ last.out = NULL
              /\ owned = last.pre_owned
        /\ len < last.pre.len => last.ret = ARRAY_SUCCESS

\* the capacities an array goes through in k strictly alternating calls of
\* array_push and array_pop with no realloc failing, starting with a push of
\* v when push is TRUE; each push gives back the element popped before it
RECURSIVE AltCaps(_, _, _, _)
AltCaps(a, v, k, push) ==
    IF k = 0 THEN <<a.cap>>
    ELSE IF push
    THEN <<a.cap>> \o AltCaps(array_push(1, a, v, TRUE).a, v, k - 1, FALSE)
    ELSE LET r == array_pop(1, a, TRUE, TRUE)
         IN  <<a.cap>> \o AltCaps(r.a, r.out, k - 1, TRUE)

\* the alternating runs that can start in the current state
AltRuns ==
    IF p_array = NULL THEN {}
    ELSE {AltCaps(Arr, v, AltCalls, TRUE) : v \in owned}
         \cup {AltCaps(Arr, NULL, AltCalls, FALSE)}

\* the number of capacity changes in a run
CapChanges(s) == Cardinality({i \in 1..(Len(s) - 1) : s[i] # s[i + 1]})

\* an insert-like call has just grown the buffer
JustGrew ==
    /\ last.op \in {"insert", "push", "set"}
    /\ last.pre_p # NULL
    /\ cap > last.pre.cap

\* a removal has just shrunk the buffer
JustShrank ==
    /\ last.op \in {"remove", "pop"}
    /\ last.pre_p # NULL
    /\ cap < last.pre.cap

\* a removal right after a growing insert does not shrink, an insert right
\* after a shrinking removal does not grow
NoReversal ==
    /\ (JustGrew /\ last'.op \in {"remove", "pop"}) => cap' >= cap
    /\ (JustShrank /\ last'.op \in {"insert", "push", "set"}) => cap' <= cap

\* C31 as stated: a removal right after a growing insert never shrinks, an
\* insert right after a shrinking removal never grows, and strictly
\* alternating push/pop from any reachable state changes the capacity at
\* most once.
C31_Original ==
    /\ [][NoReversal]_vars
    /\ [](\A s \in AltRuns : CapChanges(s) <= 1)

\* C31 (amended): a removal right after a growing insert never shrinks and
\* an insert right after a shrinking removal never grows, and strictly
\* alternating push/pop from any reachable state never changes the capacity
\* in both directions: the run either grows once, at its first push, or
\* only shrinks (more than once when len is far below cap / 6).
C31_NoThrash ==
    /\ [][NoReversal]_vars
    /\ [](\A s \in AltRuns :
            \/ /\ CapChanges(s) <= 1
               /\ \A i \in 1..(Len(s) - 1) : s[i] <= s[i + 1]
            \/ \A i \in 1..(Len(s) - 1) : s[i] >= s[i + 1])

\* C31 witness: a pop right at the boundary, from 17 elements in the 32
\* slots a push has grown the buffer to, leaves the 32 slots.
C31_Witness ==
    /\ last.op = "pop"
    /\ last.pre.len = 17
    /\ last.pre.cap = 32
    /\ len = 16
    /\ cap = 32

\* C32: capacity changes only through the growth / shrink policy.  It is
\* left unchanged by array_get, array_find, array_foreach, array_is_equal,
\* array_clear, array_fill, array_set with index < len, every failed call and
\* every insert on an array that is not full; the only changes are the
\* doubling in an insert on a full array and the shrink step after a
\* removal.
C32_CapacityFrame ==
    (last.pre_p # NULL /\ p_array # NULL) =>
        /\ last.op \in {"get", "find", "foreach", "is_equal", "clear", "fill"}
              => cap = last.pre.cap
        /\ (last.op = "set" /\ last.index < last.pre.len) => cap = last.pre.cap
        /\ (last.op # "is_equal" /\ last.ret # ARRAY_SUCCESS)
              => cap = last.pre.cap
        /\ (last.op \in {"insert", "push", "set"}
            /\ last.pre.len < last.pre.cap) => cap = last.pre.cap
        /\ cap # last.pre.cap =>
              \/ /\ last.op \in {"insert", "push", "set"}
                 /\ last.ret = ARRAY_SUCCESS
                 /\ last.pre.len = last.pre.cap
                 /\ len = last.pre.len + 1
                 /\ cap = last.pre.cap * ARRAY_RESIZE_FACTOR
              \/ /\ last.op \in {"remove", "pop"}
                 /\ len = last.pre.len - 1
                 /\ len < last.pre.cap \div ARRAY_SHRINK_THRESHOLD_DIVISOR
                 /\ cap = Max(last.pre.cap \div ARRAY_SHRINK_FACTOR,
                              ARRAY_MIN_CAPACITY)
                 /\ cap < last.pre.cap

\* C32 witness: array_set below len on a full array stores the element
\* without growing the buffer.
C32_Witness ==
    /\ last.op = "set"
    /\ last.ret = ARRAY_SUCCESS
    /\ last.index < last.pre.len
    /\ last.pre.len = last.pre.cap
    /\ last.pre.cap = 2
    /\ cap = 2

\* C33: stack_clone is all-or-nothing: it returns either NULL or a stack
\* whose array is a non-null deep copy of the source's array with the same
\* size; it never returns a stack object whose array is missing.  (The code
\* returns the new stack_t even when array_clone has failed.)
C33_StackCloneAllOrNothing ==
    last.op = "stack_clone" =>
        \/ last.out = NULL
        \/ /\ p_clone # NULL
           /\ clone.len = len
           /\ array_is_equal(p_array, Arr, p_clone, clone, val)
           /\ Range(Contents(clone)) \cap Range(Contents(Arr)) = {}

Reversed(s) == [i \in DOMAIN s |-> s[Len(s) + 1 - i]]

\* whether the chain from the head ends in a null p_next after every node
NullTerminated(l) ==
    /\ Len(LLNodes(l)) = Cardinality(DOMAIN l.node)
    /\ Distinct(LLNodes(l))
    /\ (l.p_head # NULL =>
            l.node[LLNodes(l)[Len(LLNodes(l))]].p_next = NULL)

\* C35: ll_reverse turns a list of x1..xn into xn..x1 with the same nodes,
\* null-terminated and of the same size, and reversing twice restores the
\* original list.
C35_LLReverse ==
    (last.op = "ll_reverse" /\ last.pre_list.p_list # NULL) =>
        /\ last.ret = LL_SUCCESS
        /\ LLNodes(ll) = Reversed(LLNodes(last.pre_list))
        /\ LLData(ll) = Reversed(LLData(last.pre_list))
        /\ NullTerminated(ll)
        /\ Len(LLNodes(ll)) = Len(LLNodes(last.pre_list))
        /\ ll_reverse(ll).l = last.pre_list

\* C35 witness: a list of three elements has been reversed.
C35_Witness ==
    /\ last.op = "ll_reverse"
    /\ last.ret = LL_SUCCESS
    /\ Len(LLData(last.pre_list)) = 3
    /\ LLData(ll)[1] = LLData(last.pre_list)[3]

\* whether following p_next from the head visits every node of the list once
\* and returns to the head
IsRing(l) ==
    /\ HeadLive(l)
    /\ Len(RingNodes(l)) = Cardinality(DOMAIN l.node)
    /\ Distinct(RingNodes(l))
    /\ (l.p_head # NULL =>
            l.node[RingNodes(l)[Len(RingNodes(l))]].p_next = l.p_head)

\* C36: after any sequence of circular_linked_list_insert, preappend and
\* del_at the list is a ring (following p_next from the head visits exactly
\* its n nodes and the n-th step returns to the head) that holds every
\* element it was given and did not delete; a preappend onto a list of two or
\* more elements yields the new node followed by all the previous nodes.
C36_RingInvariant ==
    /\ IsRing(cll)
    /\ Range(RingData(cll)) = heap \ owned
    /\ (/\ last.op = "circular_linked_list_insert"
        /\ last.index = 0
        /\ last.value # NULL
        /\ last.ok
        /\ Len(RingData(last.pre_list)) >= 2) =>
            RingData(cll) = <<last.value>> \o RingData(last.pre_list)

\* C37: circular_linked_list_size terminates and returns the number of nodes
\* in the list (0 for a NULL or empty list): the nodes met from the head up
\* to the return to the head.
C37_SizeTerminates ==
    /\ (cll.pc = "size") ~> (cll.pc = "idle")
    /\ [](last.op = "circular_linked_list_size" =>
              last.ret = Len(RingNodes(cll)))

\* whether the p_next chain from the head holds every node of the list and
\* every p_prev is the inverse of p_next
LinksConsistent(l) ==
    LET ns == LLNodes(l)
    IN  /\ Len(ns) = Cardinality(DOMAIN l.node)
        /\ Distinct(ns)
        /\ (l.p_head # NULL =>
               /\ l.node[l.p_head].p_prev = NULL
               /\ l.node[ns[Len(ns)]].p_next = NULL)
        /\ \A i \in 1..(Len(ns) - 1) : l.node[ns[i + 1]].p_prev = ns[i]

\* C38: after every doubly_linked_list_insert, preappend, del_at and reverse
\* the head's p_prev is null, the tail's p_next is null, and the successor m
\* of every node n has m->p_prev = n.
C38_DLLLinks == dll.p_list # NULL => LinksConsistent(dll)

\* C38 witness: a list of three elements that were not all inserted at one
\* end has been reversed.
C38_Witness ==
    /\ last.op = "doubly_linked_list_reverse"
    /\ Len(LLNodes(dll)) = 3
    /\ LLNodes(dll) # <<1, 2, 3>>
    /\ LLNodes(dll) # <<3, 2, 1>>
    /\ LLNodes(last.pre_list) = Reversed(LLNodes(dll))

\* C39: on a freshly created rows x cols matrix, matrix_set(m, r, c, v)
\* succeeds for every r < rows and c < cols whatever the order in which the
\* cells are written, and a following matrix_get(m, r, c) returns v; only
\* r >= rows or c >= cols yields MATRIX_OUT_OF_BOUNDS.
C39_MatrixSet ==
    (/\ last.op = "matrix_set"
     /\ last.pre_list.p_matrix # NULL
     /\ last.value # NULL) =>
        IF /\ last.index[1] < last.pre_list.rows
           /\ last.index[2] < last.pre_list.cols
        THEN /\ last.ret = MATRIX_SUCCESS
             /\ matrix_get(matrix, last.index[1], last.index[2], TRUE)
                    = [ret |-> MATRIX_SUCCESS, out |-> last.value]
        ELSE last.ret = MATRIX_OUT_OF_BOUNDS

====
